---- MODULE Spec2Model ----
(***************************************************************************)
(* Multi-chain IDRX blockchain client: network registry, connection pool   *)
(* with ordered failover, transaction waiter and the bridge operation      *)
(* CompleteBridge (burn on source, wait, extract nonce, mint on target).   *)
(***************************************************************************)
EXTENDS Integers, Sequences, FiniteSets, TLC

\* ------------------------------------------------------------------ bounds
\* endpoints that may fail to dial during construction (in total)
MaxDialFailures == 1
\* largest value of a contract's bridge nonce counter before the operation
MaxNonce == 1
\* most logs in one receipt
MaxLogs == 2
\* Close() calls during the client's lifetime
MaxCloses == 2
\* endpoints that may fail to dial in a construction that is allowed to fail
MaxFailedDials == 2

\* largest coefficient of an amount a conversion is applied to
MaxCoefficient == 12
\* most fractional digits an amount has beyond the precision it is converted at
MaxExtraDigits == 2
\* most digits by which an amount's last digit lies above the base unit
MaxSpareDigits == 2

\* ------------------------------------------------------- network registry
BaseChainID == 8453
PolygonChainID == 137
BSCChainID == 56
LiskChainID == 1135
KaiaChainID == 8217
WorldChainChainID == 480
EtherlinkChainID == 42793
GnosisChainID == 100

\* a chain ID outside the registry (the one the registry's tests use)
UnknownChainID == 999999

\* time.Second and time.Minute, in milliseconds
Second == 1000
Minute == 60000

\* BlockTime is in milliseconds, MaxGasPrice in units of 10^8 wei (0.1 Gwei)
NetworkConfig(chainID, name, endpoints, blockTime, gasLimit, maxGasPrice, decimals) ==
    [ChainID |-> chainID, Name |-> name, RPCEndpoints |-> endpoints,
     HasContract |-> TRUE, BlockTime |-> blockTime, GasLimit |-> gasLimit,
     MaxGasPrice |-> maxGasPrice, IsTestnet |-> FALSE, Decimals |-> decimals]

SupportedNetworks ==
    "BaseMainnet" :> NetworkConfig(BaseChainID, "Base",
        <<"https://mainnet.base.org", "https://base.llamarpc.com">>,
        2 * Second, 3000000, 100, 2)
    @@ "PolygonMainnet" :> NetworkConfig(PolygonChainID, "Polygon",
        <<"https://polygon-rpc.com", "https://polygon.llamarpc.com">>,
        2 * Second, 3000000, 500, 0)
    @@ "BSCMainnet" :> NetworkConfig(BSCChainID, "BNB Smart Chain",
        <<"https://bsc-dataseed.binance.org", "https://binance.llamarpc.com">>,
        3 * Second, 3000000, 50, 0)
    @@ "LiskMainnet" :> NetworkConfig(LiskChainID, "Lisk",
        <<"https://rpc.api.lisk.com">>,
        2 * Second, 3000000, 10, 2)
    @@ "KaiaMainnet" :> NetworkConfig(KaiaChainID, "Kaia",
        <<"https://public-en.node.kaia.io">>,
        2 * Second, 3000000, 10, 2)
    @@ "WorldChainMainnet" :> NetworkConfig(WorldChainChainID, "World Chain",
        <<"https://worldchain-mainnet.g.alchemy.com/public">>,
        2 * Second, 3000000, 10, 2)
    @@ "EtherlinkMainnet" :> NetworkConfig(EtherlinkChainID, "Etherlink",
        <<"https://node.mainnet.etherlink.com">>,
        2 * Second, 30000000, 10, 2)
    @@ "GnosisMainnet" :> NetworkConfig(GnosisChainID, "Gnosis",
        <<"https://rpc.gnosischain.com", "https://0xrpc.io/gno">>,
        5 * Second, 3000000, 5, 2)

NetworkNames == DOMAIN SupportedNetworks

\* the names whose descriptor carries chainID (the loop of the lookups by chain ID)
NamesOfChain(chainID) ==
    {n \in NetworkNames : SupportedNetworks[n].ChainID = chainID}

IsChainSupported(chainID) == NamesOfChain(chainID) # {}

\* a lookup that pairs the descriptor with the name of some network
GetNetworkConfigByChainID_AnyName(chainID) ==
    IF NamesOfChain(chainID) # {}
    THEN LET n == CHOOSE m \in NamesOfChain(chainID) : TRUE
         IN  [exists |-> TRUE, name |-> CHOOSE m \in NetworkNames : m # n,
              config |-> SupportedNetworks[n]]
    ELSE [exists |-> FALSE, name |-> "", config |-> [ChainID |-> 0]]

GetNetworkConfigByChainID(chainID) ==
    IF NamesOfChain(chainID) # {}
    THEN LET n == CHOOSE m \in NamesOfChain(chainID) : TRUE
         IN  [exists |-> TRUE, name |-> n, config |-> SupportedNetworks[n]]
    ELSE [exists |-> FALSE, name |-> "", config |-> [ChainID |-> 0]]

\* GetNetworkNameByChainID: the same loop, the name alone
GetNetworkNameByChainID(chainID) ==
    IF NamesOfChain(chainID) # {}
    THEN [exists |-> TRUE, name |-> CHOOSE m \in NamesOfChain(chainID) : TRUE]
    ELSE [exists |-> FALSE, name |-> ""]

\* IsNetworkSupported: _, exists := SupportedNetworks[networkName]
IsNetworkSupported(networkName) == networkName \in NetworkNames

\* a precision lookup without the fallback: the zero value for an unknown chain
GetDecimals_NoFallback(chainID) ==
    LET r == GetNetworkConfigByChainID(chainID)
    IN  IF ~r.exists THEN 0 ELSE r.config.Decimals

\* Returns 2 as default if the chain is not found
GetDecimals(chainID) ==
    LET r == GetNetworkConfigByChainID(chainID)
    IN  IF ~r.exists THEN 2 ELSE r.config.Decimals

\* ------------------------------------------------------------ TokenAmount
RECURSIVE Pow10(_)
Pow10(n) == IF n <= 0 THEN 1 ELSE 10 * Pow10(n - 1)

\* a decimal Value * 10^Exp, with the precision Decimals of its base unit
TokenAmount(value, exp, decimals) ==
    [Value |-> value, Exp |-> exp, Decimals |-> decimals]

\* n / p rounded to the nearest integer, halves away from zero (DivRound)
RoundHalfAway(n, p) ==
    LET a == IF n >= 0 THEN n ELSE -n
        q == IF 2 * (a % p) >= p THEN (a \div p) + 1 ELSE a \div p
    IN  IF n >= 0 THEN q ELSE -q

\* a conversion that rounds the product to the nearest base unit
ToWei_Rounded(ta) ==
    LET e == ta.Exp + ta.Decimals
    IN  IF e >= 0 THEN ta.Value * Pow10(e)
        ELSE RoundHalfAway(ta.Value, Pow10(-e))

\* Amount.Mul(10^Decimals).BigInt(): exact product, fraction truncated
ToWei(ta) ==
    LET e == ta.Exp + ta.Decimals
    IN  IF e >= 0 THEN ta.Value * Pow10(e)
        ELSE IF ta.Value >= 0 THEN ta.Value \div Pow10(-e)
        ELSE -((-ta.Value) \div Pow10(-e))

\* ---------------------------------------------------------------- strings
\* a string is the sequence of its characters
DigitChars == <<"0", "1", "2", "3", "4", "5", "6", "7", "8", "9">>

IsDigit(c) == \E n \in 1..10 : DigitChars[n] = c

DigitValue(c) == (CHOOSE n \in 1..10 : DigitChars[n] = c) - 1

\* strconv.ParseInt on a string of digits
RECURSIVE ParseDigits(_)
ParseDigits(s) ==
    IF s = <<>> THEN 0
    ELSE 10 * ParseDigits(SubSeq(s, 1, Len(s) - 1)) + DigitValue(s[Len(s)])

NoDecimal == [Value |-> 0, Exp |-> 0]

\* decimal.NewFromString on a string without an exponent part: at most one
\* ".", which is cut out and counted into the exponent; the rest must be an
\* integer literal with an optional sign
NewFromString(s) ==
    LET dots == {i \in 1..Len(s) : s[i] = "."}
        pIndex == IF dots = {} THEN 0 ELSE CHOOSE i \in dots : TRUE
        intString == IF pIndex = 0 THEN s
                     ELSE SubSeq(s, 1, pIndex - 1) \o SubSeq(s, pIndex + 1, Len(s))
        exp == IF pIndex = 0 THEN 0 ELSE -(Len(s) - pIndex)
        signed == intString # <<>> /\ intString[1] \in {"+", "-"}
        digits == IF signed THEN Tail(intString) ELSE intString
        sign == IF signed /\ intString[1] = "-" THEN -1 ELSE 1
    IN  IF Cardinality(dots) > 1
        THEN [err |-> <<"can't convert to decimal: too many .s">>, d |-> NoDecimal]
        ELSE IF digits = <<>> \/ \E i \in 1..Len(digits) : ~IsDigit(digits[i])
        THEN [err |-> <<"can't convert to decimal">>, d |-> NoDecimal]
        ELSE [err |-> <<>>, d |-> [Value |-> sign * ParseDigits(digits), Exp |-> exp]]

\* no TokenAmount: the nil a failed read returns
NoAmount == TokenAmount(0, 0, -1)

\* no pure function was called
NoApp == [kind |-> "", arg |-> 0, fn |-> "", out |-> 0]

\* a Go pointer: Nil is the nil pointer, Ptr(v) points to v
Nil == <<>>

Ptr(v) == <<v>>

\* no REST operation was called
NoRest == [op |-> "", req |-> Nil, err |-> <<>>, sent |-> 0]

\* no idrx.Client: the SDK was not asked for one
NoSDK == [returned |-> FALSE, Blockchain |-> FALSE]

\* ParseTokenAmount(amountStr, decimals)
ParseTokenAmount(amountStr, decimals) ==
    LET r == NewFromString(amountStr)
    IN  IF r.err # <<>>
        THEN [err |-> <<"invalid amount format">> \o r.err, amount |-> NoAmount]
        ELSE [err |-> <<>>, amount |-> TokenAmount(r.d.Value, r.d.Exp, decimals)]

\* strconv.Itoa of a natural number
RECURSIVE NatToChars(_)
NatToChars(n) ==
    IF n < 10 THEN <<DigitChars[n + 1]>>
    ELSE NatToChars(n \div 10) \o <<DigitChars[(n % 10) + 1]>>

Zeros(k) == [i \in 1..k |-> "0"]

\* Decimal.Round(places): the coefficient at exponent -places, halves away
\* from zero
Round(v, x, places) ==
    IF x >= -places THEN v * Pow10(x + places)
    ELSE RoundHalfAway(v, Pow10(-places - x))

\* Decimal.StringFixed(places): the rounded coefficient written with its last
\* `places` digits after the point, padded with zeros on the left
StringFixed(v, x, places) ==
    LET r == Round(v, x, places)
        str == NatToChars(IF r >= 0 THEN r ELSE -r)
        intPart == IF Len(str) > places
                   THEN SubSeq(str, 1, Len(str) - places) ELSE <<"0">>
        fractionalPart == IF Len(str) > places
                          THEN SubSeq(str, Len(str) - places + 1, Len(str))
                          ELSE Zeros(places - Len(str)) \o str
        number == IF fractionalPart # <<>>
                  THEN intPart \o <<".">> \o fractionalPart ELSE intPart
    IN  IF r < 0 THEN <<"-">> \o number ELSE number

\* a rendering with the fractional digits the value happens to have
String_Unpadded(ta) ==
    StringFixed(ta.Value, ta.Exp, IF ta.Exp < 0 THEN -ta.Exp ELSE 0)

\* TokenAmount.String: Amount.StringFixed(Decimals)
String(ta) == StringFixed(ta.Value, ta.Exp, ta.Decimals)

\* decimal.DivisionPrecision: the fractional digits Decimal.Div keeps
DivisionPrecision == 16

\* NewFromBigInt(wei, 0).Div(10^decimals): the quotient rounded to
\* DivisionPrecision fractional digits. Value * 10^Exp is the quotient's value;
\* the library pads its coefficient with zeros down to exponent -16.
FromWei(wei, decimals) ==
    IF decimals <= DivisionPrecision
    THEN TokenAmount(wei, -decimals, decimals)
    ELSE TokenAmount(RoundHalfAway(wei, Pow10(decimals - DivisionPrecision)),
                     -DivisionPrecision, decimals)

\* -------------------------------------------------------- shared state
VARIABLES
    clients,      \* Client.clients: chain ID -> connections, in dial order
    contracts,    \* Client.contracts: chain ID -> connection the contract is bound to
    closed,       \* connections on which Close() was called
    pc,           \* position of the caller in the running operation
    op,           \* the operation the caller runs
    request,      \* its BridgeRequest (FromChainID is the chain of a token operation)
    err,          \* the error chain it returned (<<>> is nil)
    calls,        \* transactions this invocation submitted, in order
    receipt,      \* receipt returned by WaitForTransaction
    bridgeNonce,  \* result of extractBridgeNonceFromReceipt
    elapsed,      \* time since the waiter's ticker started (ms)
    polls,        \* receipt lookups of the running wait
    probes,       \* liveness probes of the latest GetClient
    ctxCancelled, \* the operation found the caller's context cancelled
    txStatus,     \* TransactionStatus.Status the service's wait returned ("" is none)
    result,       \* the TokenAmount a read returned to the caller
    readVia,      \* the connection the latest contract read was issued on
    mintTx,       \* the submitted mintForBridge transaction on the destination chain
    bridgeNonces, \* bridgeNonce() of each contract: the nonce its next burn gets
    usedNonces,   \* fromChainNonceUsed of the contracts: <<chain, source chain, nonce>>
    closeCalls,   \* Close() calls each connection received
    rwReaders,    \* Client.mutex: the goroutines holding the read lock
    rwWriter,     \* Client.mutex: the write lock is held
    rwWaiting,    \* Client.mutex: a Lock() call is pending, new RLock() calls block
    gpc,          \* position of each goroutine that shares the client
    gchain,       \* chain ID a goroutine passed to GetClient
    gidx,         \* index of GetClient's loop over the chain's connections
    held,         \* the connection GetClient returned to a goroutine
    gerr,         \* the error the goroutine's latest pool call returned (<<>> is nil)
    gfailed,      \* connections whose probe failed in its latest GetClient, in order
    toClose,      \* chains that Close's loop over c.clients has not visited yet
    keyParsed,    \* ClientConfig.PrivateKeyHex is a well-formed key
    dialFailed,   \* endpoints whose dial fails during construction
    opened,       \* connections the constructor's dials opened
    constructed,  \* NewClient: "new" before the call, then "ok" or "failed"
    newErr,       \* the error NewClient returned (<<>> is nil)
    sdk,          \* the idrx.Client an SDK construction returned, and its Blockchain field
    app,          \* a call of a pure function: its argument, the function, its result
    rest          \* a call of a REST operation: its request, its error, the HTTP requests sent

lockVars == <<rwReaders, rwWriter, rwWaiting>>
procVars == <<gpc, gchain, gidx, held, gerr, gfailed, toClose>>
newVars == <<keyParsed, dialFailed, opened, constructed, newErr>>
apiVars == <<sdk, app, rest>>
poolVars == <<clients, contracts, closed, closeCalls, lockVars, procVars, newVars, apiVars>>
callVars == <<pc, op, request, err, calls, receipt, bridgeNonce, elapsed, polls,
              probes, ctxCancelled, txStatus, result, readVia>>
chainVars == <<mintTx, bridgeNonces, usedNonces>>
vars == <<poolVars, callVars, chainVars>>

\* ------------------------------------------------------- connection pool
\* a connection is <<chain ID, index of its endpoint>>
AllEndpoints ==
    UNION {{<<SupportedNetworks[n].ChainID, i>> :
               i \in 1..Len(SupportedNetworks[n].RPCEndpoints)} : n \in NetworkNames}

NoClient == <<0, 0>>

\* the connections of one network whose dial succeeded, in endpoint order
DialedOf(cfg, failed) ==
    SelectSeq([i \in 1..Len(cfg.RPCEndpoints) |-> <<cfg.ChainID, i>>],
              LAMBDA c : c \notin failed)

\* a constructor that gives up at the first endpoint that does not answer
initializeNetworks_FailOnAnyDial(failed) ==
    LET ids == {SupportedNetworks[n].ChainID : n \in NetworkNames}
        cfgOf(id) == GetNetworkConfigByChainID(id).config
    IN  IF failed # {}
        THEN [err |-> <<"failed to connect to any RPC endpoint">>,
              clients |-> <<>>, contracts |-> <<>>]
        ELSE [err |-> <<>>,
              clients |-> [id \in ids |-> DialedOf(cfgOf(id), failed)],
              contracts |-> [id \in ids |-> Head(DialedOf(cfgOf(id), failed))]]

\* a constructor that binds the contract to the last connection of the chain
initializeNetworks_BindLast(failed) ==
    LET ids == {SupportedNetworks[n].ChainID : n \in NetworkNames}
        cfgOf(id) == GetNetworkConfigByChainID(id).config
        last(q) == q[Len(q)]
    IN  IF \E id \in ids : DialedOf(cfgOf(id), failed) = <<>>
        THEN [err |-> <<"failed to connect to any RPC endpoint">>,
              clients |-> <<>>, contracts |-> <<>>]
        ELSE [err |-> <<>>,
              clients |-> [id \in ids |-> DialedOf(cfgOf(id), failed)],
              contracts |-> [id \in ids |-> last(DialedOf(cfgOf(id), failed))]]

\* initializeNetworks, given the endpoints whose dial fails
initializeNetworks(failed) ==
    LET deployed == {n \in NetworkNames : SupportedNetworks[n].HasContract}
        ids == {SupportedNetworks[n].ChainID : n \in deployed}
        cfgOf(id) == GetNetworkConfigByChainID(id).config
    IN  IF \E n \in deployed : DialedOf(SupportedNetworks[n], failed) = <<>>
        THEN [err |-> <<"failed to connect to any RPC endpoint">>,
              clients |-> <<>>, contracts |-> <<>>]
        ELSE [err |-> <<>>,
              clients |-> [id \in ids |-> DialedOf(cfgOf(id), failed)],
              contracts |-> [id \in ids |-> Head(DialedOf(cfgOf(id), failed))]]

ConnsOf(chainID) ==
    IF chainID \in DOMAIN clients
    THEN {clients[chainID][i] : i \in 1..Len(clients[chainID])}
    ELSE {}

\* outcomes of the liveness probes of one GetClient call
ProbeOutcomes(chainID) == [ConnsOf(chainID) -> BOOLEAN]

\* index of the first connection whose probe succeeds, 0 if none
FirstAlive(cs, alive) ==
    LET ok == {i \in 1..Len(cs) : alive[cs[i]]}
    IN  IF ok = {} THEN 0 ELSE CHOOSE i \in ok : \A j \in ok : i <= j

\* an acquire that hands out a connection for a chain it does not know
GetClient_AnyChain(chainID, alive) ==
    IF chainID \notin DOMAIN clients
    THEN [err |-> <<>>, client |-> NoClient, probes |-> 0]
    ELSE LET cs == clients[chainID]
             i == FirstAlive(cs, alive)
         IN  IF i > 0
             THEN [err |-> <<>>, client |-> cs[i], probes |-> i]
             ELSE [err |-> <<"no available clients for chain ID">>,
                   client |-> NoClient, probes |-> Len(cs)]

GetClient(chainID, alive) ==
    IF chainID \notin DOMAIN clients
    THEN [err |-> <<"chain ID not supported or not connected">>,
          client |-> NoClient, probes |-> 0]
    ELSE LET cs == clients[chainID]
             i == FirstAlive(cs, alive)
         IN  IF i > 0
             THEN [err |-> <<>>, client |-> cs[i], probes |-> i]
             ELSE [err |-> <<"no available clients for chain ID">>,
                   client |-> NoClient, probes |-> Len(cs)]

GetContract(chainID) ==
    IF chainID \notin DOMAIN contracts
    THEN [err |-> <<"IDRX contract not available for chain ID">>, contract |-> NoClient]
    ELSE [err |-> <<>>, contract |-> contracts[chainID]]

\* fmt.Errorf("msg: %w", e)
Wrap(msg, e) == <<msg>> \o e

\* answers of a node to the chain-ID query of CreateTransactor
ChainIDReplies(chainID) ==
    {[failed |-> FALSE, id |-> chainID],
     [failed |-> FALSE, id |-> UnknownChainID],
     [failed |-> TRUE, id |-> 0]}

\* a signer built from whatever chain ID the node reports
CreateTransactor_NoCheck(chainID, alive, reply, cancelled) ==
    LET g == GetClient(chainID, alive)
    IN  IF g.err # <<>> THEN [err |-> g.err, signer |-> 0, probes |-> g.probes]
        ELSE IF reply.failed \/ cancelled
        THEN [err |-> <<"failed to get chain ID">>, signer |-> 0, probes |-> g.probes]
        ELSE [err |-> <<>>, signer |-> reply.id, probes |-> g.probes]

CreateTransactor(chainID, alive, reply, cancelled) ==
    LET g == GetClient(chainID, alive)
    IN  IF g.err # <<>> THEN [err |-> g.err, signer |-> 0, probes |-> g.probes]
        ELSE IF reply.failed \/ cancelled
        THEN [err |-> <<"failed to get chain ID">>, signer |-> 0, probes |-> g.probes]
        ELSE IF reply.id # chainID
        THEN [err |-> <<"client chain ID does not match requested chain ID">>,
              signer |-> 0, probes |-> g.probes]
        ELSE [err |-> <<>>, signer |-> reply.id, probes |-> g.probes]

\* ----------------------------------------------------- contract binding
NoNonce == -1
NoTx == [method |-> "", chain |-> 0, via |-> NoClient, signer |-> 0,
         amount |-> 0, peer |-> 0, nonce |-> NoNonce]

Tx(method, chain, via, signer, amount, peer, nonce) ==
    [method |-> method, chain |-> chain, via |-> via, signer |-> signer,
     amount |-> amount, peer |-> peer, nonce |-> nonce]

\* a submission through the connection GetClient selected for the signer
Submit_ViaAcquired(method, failure, chainID, amount, peer, nonce, alive, reply, sent, cancelled) ==
    LET c == GetContract(chainID)
        t == CreateTransactor(chainID, alive, reply, cancelled)
    IN  IF c.err # <<>> THEN [err |-> c.err, tx |-> NoTx, probes |-> 0]
        ELSE IF t.err # <<>> THEN [err |-> t.err, tx |-> NoTx, probes |-> t.probes]
        ELSE IF ~sent
        THEN [err |-> Wrap(failure, <<"rpc error">>), tx |-> NoTx, probes |-> t.probes]
        ELSE [err |-> <<>>, probes |-> t.probes,
              tx |-> Tx(method, chainID, GetClient(chainID, alive).client, t.signer,
                        ToWei(amount), peer, nonce)]

\* the shape shared by Transfer, Mint, Burn, BurnBridge and MintBridge:
\* GetContract, CreateTransactor, then one submission through the contract
Submit(method, failure, chainID, amount, peer, nonce, alive, reply, sent, cancelled) ==
    LET c == GetContract(chainID)
        t == CreateTransactor(chainID, alive, reply, cancelled)
    IN  IF c.err # <<>> THEN [err |-> c.err, tx |-> NoTx, probes |-> 0]
        ELSE IF t.err # <<>> THEN [err |-> t.err, tx |-> NoTx, probes |-> t.probes]
        ELSE IF ~sent
        THEN [err |-> Wrap(failure, <<"rpc error">>), tx |-> NoTx, probes |-> t.probes]
        ELSE [err |-> <<>>, probes |-> t.probes,
              tx |-> Tx(method, chainID, c.contract, t.signer, ToWei(amount), peer, nonce)]

Transfer(chainID, amount, alive, reply, sent, cancelled) ==
    Submit("transfer", "failed to transfer tokens", chainID, amount, 0, NoNonce,
           alive, reply, sent, cancelled)

Mint(chainID, amount, alive, reply, sent, cancelled) ==
    Submit("mint", "failed to mint tokens", chainID, amount, 0, NoNonce,
           alive, reply, sent, cancelled)

Burn(chainID, amount, alive, reply, sent, cancelled) ==
    Submit("burn", "failed to burn tokens", chainID, amount, 0, NoNonce,
           alive, reply, sent, cancelled)

BurnBridge(req, alive, reply, sent, cancelled) ==
    Submit("burnForBridge", "failed to burn for bridge", req.FromChainID, req.Amount,
           req.ToChainID, NoNonce, alive, reply, sent, cancelled)

\* a mint that expresses the amount at the precision of the destination chain
MintBridge_Rescaled(chainID, amount, fromChainID, nonce, alive, reply, sent, cancelled) ==
    Submit("mintForBridge", "failed to mint bridge tokens", chainID,
           TokenAmount(amount.Value, amount.Exp, GetDecimals(chainID)),
           fromChainID, nonce, alive, reply, sent, cancelled)

MintBridge(chainID, amount, fromChainID, nonce, alive, reply, sent, cancelled) ==
    Submit("mintForBridge", "failed to mint bridge tokens", chainID, amount,
           fromChainID, nonce, alive, reply, sent, cancelled)

BurnWithAccountNumber(chainID, amount, alive, reply, sent, cancelled) ==
    Submit("burnWithAccountNumber", "failed to burn tokens with account number",
           chainID, amount, 0, NoNonce, alive, reply, sent, cancelled)

\* ------------------------------------------------------ BlockchainService
\* the precision the service passes to ParseTokenAmount
ServiceDecimals == 18

\* the service parses the amount string, then runs the client's operation
ParsedCall(amountStr, r) ==
    IF ParseTokenAmount(amountStr, ServiceDecimals).err # <<>>
    THEN [err |-> <<"invalid amount">>
                    \o ParseTokenAmount(amountStr, ServiceDecimals).err,
          tx |-> NoTx, probes |-> 0]
    ELSE r

\* BlockchainService.Transfer(ctx, chainID, toAddress, amount)
ServiceTransfer(chainID, amountStr, alive, reply, sent, cancelled) ==
    ParsedCall(amountStr,
        Transfer(chainID, ParseTokenAmount(amountStr, ServiceDecimals).amount,
                 alive, reply, sent, cancelled))

\* BlockchainService.BurnForRedemption(ctx, chainID, amount, accountNumber)
BurnForRedemption(chainID, amountStr, alive, reply, sent, cancelled) ==
    ParsedCall(amountStr,
        BurnWithAccountNumber(chainID,
            ParseTokenAmount(amountStr, ServiceDecimals).amount,
            alive, reply, sent, cancelled))

\* BlockchainService.InitiateBridge(ctx, request)
InitiateBridge(fromChainID, toChainID, amountStr, alive, reply, sent, cancelled) ==
    IF ~IsChainSupported(fromChainID)
    THEN [err |-> <<"source chain not supported">>, tx |-> NoTx, probes |-> 0]
    ELSE IF ~IsChainSupported(toChainID)
    THEN [err |-> <<"destination chain not supported">>, tx |-> NoTx, probes |-> 0]
    ELSE ParsedCall(amountStr,
            BurnBridge([Amount |-> ParseTokenAmount(amountStr, ServiceDecimals).amount,
                        ToChainID |-> toChainID, FromChainID |-> fromChainID],
                       alive, reply, sent, cancelled))

\* the shape shared by BalanceOf and TotalSupply: GetContract, one read through
\* the contract with nil call options, FromWei at the precision of the chain.
\* The context parameter is unnamed: nothing of the call depends on it.
Read(failure, chainID, wei, answered) ==
    LET c == GetContract(chainID)
    IN  IF c.err # <<>> THEN [err |-> c.err, amount |-> NoAmount, via |-> NoClient]
        ELSE IF ~answered
        THEN [err |-> Wrap(failure, <<"rpc error">>), amount |-> NoAmount,
              via |-> c.contract]
        ELSE [err |-> <<>>, amount |-> FromWei(wei, GetDecimals(chainID)),
              via |-> c.contract]

BalanceOf(chainID, wei, answered) ==
    Read("failed to get balance", chainID, wei, answered)

TotalSupply(chainID, wei, answered) ==
    Read("failed to get total supply", chainID, wei, answered)

\* IsNonceUsed: the contract's fromChainNonceUsed(fromChainID, nonce)
IsNonceUsed(chainID, fromChainID, nonce) ==
    LET c == GetContract(chainID)
    IN  IF c.err # <<>> THEN [err |-> c.err, used |-> FALSE]
        ELSE [err |-> <<>>, used |-> <<chainID, fromChainID, nonce>> \in usedNonces]

\* ------------------------------------------------------------- receipts
ReceiptStatusFailed == 0
ReceiptStatusSuccessful == 1

\* common.HexToHash("0x"): the all-zero hash the extraction compares with
HexToHash0x == 0
\* topic 0 of a BurnBridge event: the hash of its signature, which is not zero
BurnBridgeEventSig == 1

Log(topics, data) == [Topics |-> topics, Data |-> data]

\* logs a receipt can carry: one without topics, one whose first topic is the
\* zero hash, and the BurnBridge event carrying the nonce n the chain assigned
LogValues(n) ==
    {Log(<<>>, 0), Log(<<HexToHash0x>>, 0), Log(<<BurnBridgeEventSig>>, n)}

LogSeqs(n) == UNION {[1..k -> LogValues(n)] : k \in 0..MaxLogs}

\* a reverted transaction leaves no logs
Receipts(n) ==
    {[Status |-> ReceiptStatusFailed, Logs |-> <<>>]}
    \cup [Status : {ReceiptStatusSuccessful}, Logs : LogSeqs(n)]

NoReceipt == [Status |-> -1, Logs |-> <<>>]

\* what one receipt lookup can return for a burn that got nonce n: nothing
\* yet, or a receipt
LookupOutcomes == [n \in 0..MaxNonce |-> Receipts(n) \cup {NoReceipt}]

extractBridgeNonceFromReceipt(r) ==
    IF \E i \in 1..Len(r.Logs) :
          Len(r.Logs[i].Topics) > 0 /\ r.Logs[i].Topics[1] = HexToHash0x
    THEN [err |-> <<>>, nonce |-> 0]
    ELSE [err |-> <<"bridge nonce not found in transaction receipt">>, nonce |-> NoNonce]

\* ---------------------------------------------------------------- waiter
Max(a, b) == IF a >= b THEN a ELSE b

\* a deadline of 10 blocks without the floor of a minute
WaitTimeout_NoFloor(chainID) ==
    GetNetworkConfigByChainID(chainID).config.BlockTime * 10

\* the deadline of WaitForTransaction: 10 blocks, at least a minute;
\* five minutes when the chain has no descriptor
WaitTimeout(chainID) ==
    LET r == GetNetworkConfigByChainID(chainID)
    IN  IF r.exists THEN Max(r.config.BlockTime * 10, Minute) ELSE 5 * Minute

\* the ticker period: twice per block
PollInterval(chainID) ==
    GetNetworkConfigByChainID(chainID).config.BlockTime \div 2

\* ---------------------------------------------------------------- inputs
\* chains a caller names: a precision-2 chain, a precision-0 chain, an unknown one
RequestChains == {GnosisChainID, BSCChainID, UnknownChainID}

\* amounts a caller passes on a chain of the given precision: zero, one token,
\* and an amount with one fractional digit more than the precision holds
Amounts(decimals) ==
    {TokenAmount(0, 0, decimals), TokenAmount(1, 0, decimals),
     TokenAmount(1, -(decimals + 1), decimals)}

\* dial failures at construction: endpoints of the chains the callers name
DialFailures ==
    {F \in SUBSET {e \in AllEndpoints : e[1] \in RequestChains} :
        Cardinality(F) <= MaxDialFailures}

BridgeRequest(amount, toChainID, fromChainID) ==
    [Amount |-> amount, ToChainID |-> toChainID, FromChainID |-> fromChainID]

Requests ==
    UNION {{BridgeRequest(a, t, f) : a \in Amounts(GetDecimals(f)), t \in RequestChains} :
              f \in RequestChains}

NoRequest == BridgeRequest(TokenAmount(0, 0, 0), 0, 0)

NoMintTx == [status |-> "none", key |-> <<0, 0, NoNonce>>]

RegisteredChainIDs == {SupportedNetworks[n].ChainID : n \in NetworkNames}

\* the goroutines sharing one client: two that acquire connections and one
\* that tears the client down
Acquirers == {"g1", "g2"}
Closer == "closer"
Goroutines == Acquirers \cup {Closer}

\* ------------------------------------------------------------------ Init
\* the registered chains the callers name
BridgedChains == RequestChains \cap RegisteredChainIDs

\* a constructed client, idle; the contracts of the chains the callers name
\* have bridged n burns of each of them to each of them so far
Init ==
    /\ \E failed \in DialFailures :
          LET r == initializeNetworks(failed)
          IN  /\ r.err = <<>>
              /\ clients = r.clients
              /\ contracts = r.contracts
              /\ dialFailed = failed
              /\ opened = AllEndpoints \ failed
    /\ keyParsed = TRUE
    /\ constructed = "ok"
    /\ newErr = <<>>
    /\ sdk = NoSDK
    /\ app = NoApp
    /\ rest = NoRest
    /\ closed = {}
    /\ closeCalls = [c \in AllEndpoints |-> 0]
    /\ rwReaders = {}
    /\ rwWriter = FALSE
    /\ rwWaiting = FALSE
    /\ gpc = [g \in Goroutines |-> "idle"]
    /\ gchain = [g \in Acquirers |-> 0]
    /\ gidx = [g \in Acquirers |-> 0]
    /\ held = [g \in Acquirers |-> NoClient]
    /\ gerr = [g \in Acquirers |-> <<>>]
    /\ gfailed = [g \in Acquirers |-> <<>>]
    /\ toClose = {}
    /\ pc = "idle"
    /\ op = ""
    /\ request = NoRequest
    /\ err = <<>>
    /\ calls = <<>>
    /\ receipt = NoReceipt
    /\ bridgeNonce = NoNonce
    /\ elapsed = 0
    /\ polls = 0
    /\ probes = 0
    /\ ctxCancelled = FALSE
    /\ txStatus = ""
    /\ result = NoAmount
    /\ readVia = NoClient
    /\ mintTx = NoMintTx
    /\ \E n \in 0..MaxNonce :
          /\ bridgeNonces = [c \in BridgedChains |-> n]
          /\ usedNonces = {<<d, c, k>> : d \in BridgedChains,
                                        c \in BridgedChains, k \in 0..(n - 1)}

TokenRequests ==
    UNION {{BridgeRequest(a, 0, f) : a \in Amounts(GetDecimals(f))} : f \in RequestChains}

\* the caller starts an operation
Begin(name, req) ==
    /\ pc = "idle"
    /\ op' = name
    /\ request' = req
    /\ txStatus' = txStatus

\* the operation returns e to the caller; the locals of the waiter are gone
Return(e) ==
    /\ pc' = "done"
    /\ err' = e
    /\ elapsed' = 0
    /\ polls' = 0

\* -------------------------------------------------- single-call operations
\* one of Transfer, Mint, Burn: at most one submission, no wait
TokenCall(r, cancelled) ==
    /\ Return(r.err)
    /\ probes' = r.probes
    /\ calls' = IF r.err = <<>> THEN <<r.tx>> ELSE <<>>
    /\ ctxCancelled' = cancelled
    /\ UNCHANGED <<poolVars, chainVars, receipt, bridgeNonce, result, readVia>>

CallTransfer ==
    /\ pc = "idle"
    /\ \E req \in TokenRequests, cancelled \in BOOLEAN :
       \E alive \in ProbeOutcomes(req.FromChainID),
          reply \in ChainIDReplies(req.FromChainID), sent \in BOOLEAN :
           /\ Begin("Transfer", req)
           /\ TokenCall(Transfer(req.FromChainID, req.Amount, alive, reply, sent, cancelled),
                        cancelled)

CallMint ==
    /\ pc = "idle"
    /\ \E req \in TokenRequests, cancelled \in BOOLEAN :
       \E alive \in ProbeOutcomes(req.FromChainID),
          reply \in ChainIDReplies(req.FromChainID), sent \in BOOLEAN :
           /\ Begin("Mint", req)
           /\ TokenCall(Mint(req.FromChainID, req.Amount, alive, reply, sent, cancelled),
                        cancelled)

CallBurn ==
    /\ pc = "idle"
    /\ \E req \in TokenRequests, cancelled \in BOOLEAN :
       \E alive \in ProbeOutcomes(req.FromChainID),
          reply \in ChainIDReplies(req.FromChainID), sent \in BOOLEAN :
           /\ Begin("Burn", req)
           /\ TokenCall(Burn(req.FromChainID, req.Amount, alive, reply, sent, cancelled),
                        cancelled)

\* ------------------------------------------------------ service calls
\* amount strings a user passes: one billionth of a token, a tenth of a
\* femto-token, and one that is no number; their base units at precision 18
\* fit 32-bit integers
AmountStrings ==
    {<<"0", ".", "0", "0", "0", "0", "0", "0", "0", "0", "1">>,
     <<"0", ".", "0", "0", "0", "0", "0", "0", "0", "0", "0", "0", "0", "0", "0", "0", "0", "1">>,
     <<"a", "b", "c">>}

\* the amount of a service request as the parse sees it
ServiceRequest(amountStr, toChainID, fromChainID) ==
    BridgeRequest(ParseTokenAmount(amountStr, ServiceDecimals).amount,
                  toChainID, fromChainID)

CallServiceTransfer ==
    /\ pc = "idle"
    /\ \E chainID \in RequestChains, amountStr \in AmountStrings, cancelled \in BOOLEAN :
       \E alive \in ProbeOutcomes(chainID), reply \in ChainIDReplies(chainID),
          sent \in BOOLEAN :
           /\ Begin("ServiceTransfer", ServiceRequest(amountStr, 0, chainID))
           /\ TokenCall(ServiceTransfer(chainID, amountStr, alive, reply, sent, cancelled),
                        cancelled)

CallBurnForRedemption ==
    /\ pc = "idle"
    /\ \E chainID \in RequestChains, amountStr \in AmountStrings, cancelled \in BOOLEAN :
       \E alive \in ProbeOutcomes(chainID), reply \in ChainIDReplies(chainID),
          sent \in BOOLEAN :
           /\ Begin("BurnForRedemption", ServiceRequest(amountStr, 0, chainID))
           /\ TokenCall(BurnForRedemption(chainID, amountStr, alive, reply, sent, cancelled),
                        cancelled)

CallInitiateBridge ==
    /\ pc = "idle"
    /\ \E f \in RequestChains, t \in RequestChains, amountStr \in AmountStrings,
          cancelled \in BOOLEAN :
       \E alive \in ProbeOutcomes(f), reply \in ChainIDReplies(f), sent \in BOOLEAN :
           /\ Begin("InitiateBridge", ServiceRequest(amountStr, t, f))
           /\ TokenCall(InitiateBridge(f, t, amountStr, alive, reply, sent, cancelled),
                        cancelled)

\* ------------------------------------------------------------------ reads
\* base units a contract holds for an address or in total
Balances == {0, 1, 100050}

\* a read returns r to the caller; cancelled is the state of the context the
\* caller passed
ReadCall(r, cancelled) ==
    /\ Return(r.err)
    /\ result' = r.amount
    /\ readVia' = r.via
    /\ ctxCancelled' = cancelled
    /\ UNCHANGED <<poolVars, chainVars, calls, receipt, bridgeNonce, probes>>

CallBalanceOf ==
    /\ pc = "idle"
    /\ \E chainID \in RequestChains, wei \in Balances,
          answered \in BOOLEAN, cancelled \in BOOLEAN :
           /\ Begin("BalanceOf", BridgeRequest(TokenAmount(0, 0, 0), 0, chainID))
           /\ ReadCall(BalanceOf(chainID, wei, answered), cancelled)

CallTotalSupply ==
    /\ pc = "idle"
    /\ \E chainID \in RequestChains, wei \in Balances,
          answered \in BOOLEAN, cancelled \in BOOLEAN :
           /\ Begin("TotalSupply", BridgeRequest(TokenAmount(0, 0, 0), 0, chainID))
           /\ ReadCall(TotalSupply(chainID, wei, answered), cancelled)

\* ------------------------------------------------------- CompleteBridge
\* the caller invokes CompleteBridge(ctx, request)
StartCompleteBridge ==
    /\ pc = "idle"
    /\ \E req \in Requests :
           /\ Begin("CompleteBridge", req)
           /\ pc' = "burn"
           /\ UNCHANGED <<poolVars, chainVars, err, calls, receipt, bridgeNonce, elapsed,
                          polls, probes, ctxCancelled, result, readVia>>

\* Step 1: burn tokens on the source chain. The chain-ID query of
\* CreateTransactor is the call that takes the caller's context.
BurnStep ==
    /\ pc = "burn"
    /\ \E alive \in ProbeOutcomes(request.FromChainID),
          reply \in ChainIDReplies(request.FromChainID),
          sent \in BOOLEAN, cancelled \in BOOLEAN :
          LET r == BurnBridge(request, alive, reply, sent, cancelled)
          IN  /\ probes' = r.probes
              /\ IF r.err # <<>>
                 THEN /\ Return(Wrap("failed to burn on source chain", r.err))
                      /\ calls' = calls
                      /\ ctxCancelled' = cancelled
                 ELSE /\ pc' = "wait"
                      /\ calls' = Append(calls, r.tx)
                      /\ UNCHANGED <<err, elapsed, polls, ctxCancelled>>
    /\ UNCHANGED <<poolVars, chainVars, op, request, txStatus, result, readVia, receipt, bridgeNonce>>

\* the error of the wait as the running operation returns it: CompleteBridge
\* wraps it, the service's WaitForTransaction returns it as it is
WaitError(e) ==
    IF op = "CompleteBridge" THEN Wrap("burn transaction failed", e) ELSE e

\* the service's WaitForTransaction(ctx, chainID, txHash) is called
StartWaitForTransaction ==
    /\ pc = "idle"
    /\ \E chainID \in RequestChains :
           /\ Begin("WaitForTransaction", BridgeRequest(TokenAmount(0, 0, 0), 0, chainID))
           /\ pc' = "wait"
           /\ UNCHANGED <<poolVars, chainVars, err, calls, receipt, bridgeNonce, elapsed,
                          polls, probes, ctxCancelled, result, readVia>>

\* Step 2, WaitForTransaction: acquire a connection and start the ticker
WaitStart ==
    /\ pc = "wait"
    /\ \E alive \in ProbeOutcomes(request.FromChainID) :
          LET g == GetClient(request.FromChainID, alive)
          IN  /\ probes' = g.probes
              /\ IF g.err # <<>>
                 THEN Return(WaitError(g.err))
                 ELSE /\ pc' = "poll"
                      /\ elapsed' = 0
                      /\ polls' = 0
                      /\ err' = err
    /\ UNCHANGED <<poolVars, chainVars, op, request, txStatus, result, readVia, calls, receipt, bridgeNonce,
                   ctxCancelled>>

\* a waiter that returns the error of a failed lookup
PollTick_ReturnsLookupError ==
    /\ pc = "poll"
    /\ elapsed + PollInterval(request.FromChainID) <= WaitTimeout(request.FromChainID)
    /\ \E r \in LookupOutcomes[bridgeNonces[request.FromChainID]] :
          IF r = NoReceipt
          THEN /\ Return(WaitError(<<"failed to get transaction receipt">>))
               /\ UNCHANGED <<receipt, bridgeNonces>>
          ELSE /\ pc' = "receipt"
               /\ receipt' = r
               /\ elapsed' = 0
               /\ polls' = 0
               /\ err' = err
               /\ bridgeNonces' =
                    IF op = "CompleteBridge" /\ r.Status = ReceiptStatusSuccessful
                    THEN [bridgeNonces EXCEPT ![request.FromChainID] = @ + 1]
                    ELSE bridgeNonces
    /\ UNCHANGED <<poolVars, mintTx, usedNonces, op, request, txStatus, result, readVia, calls,
                   bridgeNonce, probes, ctxCancelled>>

\* case <-ticker.C: one receipt lookup; a failed lookup keeps waiting. A
\* successful burn took the next bridge nonce of the source contract.
PollTick ==
    /\ pc = "poll"
    /\ elapsed + PollInterval(request.FromChainID) <= WaitTimeout(request.FromChainID)
    /\ \E r \in LookupOutcomes[bridgeNonces[request.FromChainID]] :
          IF r = NoReceipt
          THEN /\ elapsed' = elapsed + PollInterval(request.FromChainID)
               /\ polls' = polls + 1
               /\ UNCHANGED <<pc, receipt, bridgeNonces>>
          ELSE /\ pc' = "receipt"
               /\ receipt' = r
               /\ elapsed' = 0
               /\ polls' = 0
               /\ bridgeNonces' =
                    IF op = "CompleteBridge" /\ r.Status = ReceiptStatusSuccessful
                    THEN [bridgeNonces EXCEPT ![request.FromChainID] = @ + 1]
                    ELSE bridgeNonces
    /\ UNCHANGED <<poolVars, mintTx, usedNonces, op, request, txStatus, result, readVia, err, calls, bridgeNonce,
                   probes, ctxCancelled>>

\* a waiter that answers the deadline by submitting the burn again
PollTimeout_Resubmit ==
    /\ pc = "poll"
    /\ pc' = "burn"
    /\ elapsed' = 0
    /\ polls' = 0
    /\ UNCHANGED <<poolVars, chainVars, op, request, txStatus, result, readVia, err, calls, receipt, bridgeNonce,
                   probes, ctxCancelled>>

\* a waiter whose deadline branch is taken only once a receipt is there
PollTimeout_WaitsForReceipt ==
    /\ pc = "poll"
    /\ receipt # NoReceipt
    /\ Return(WaitError(<<"timeout waiting for transaction">>))
    /\ UNCHANGED <<poolVars, chainVars, op, request, txStatus, result, readVia, calls, receipt,
                   bridgeNonce, probes, ctxCancelled>>

\* case <-timeoutCtx.Done(): the deadline passed or the caller cancelled
PollTimeout ==
    /\ pc = "poll"
    /\ \E cancelled \in BOOLEAN :
          /\ \/ cancelled
             \/ elapsed + PollInterval(request.FromChainID)
                    >= WaitTimeout(request.FromChainID)
          /\ ctxCancelled' = cancelled
    /\ Return(WaitError(<<"timeout waiting for transaction">>))
    /\ UNCHANGED <<poolVars, chainVars, op, request, txStatus, result, readVia, calls, receipt, bridgeNonce, probes>>

\* a status check that lets a reverted burn through
CheckStatus_AnyStatus ==
    /\ pc = "receipt"
    /\ op = "CompleteBridge"
    /\ pc' = "extract"
    /\ UNCHANGED <<poolVars, chainVars, op, request, txStatus, result, readVia, err, calls, receipt, bridgeNonce,
                   elapsed, polls, probes, ctxCancelled>>

\* a status report that calls every mined transaction a success
TransactionStatus_AlwaysSuccess(r) == "success"

\* the service's status of a receipt
TransactionStatus(r) ==
    IF r.Status # ReceiptStatusSuccessful THEN "failed" ELSE "success"

\* the service's WaitForTransaction returns the status of the receipt
ServiceReturn ==
    /\ pc = "receipt"
    /\ op = "WaitForTransaction"
    /\ txStatus' = TransactionStatus(receipt)
    /\ Return(<<>>)
    /\ UNCHANGED <<poolVars, chainVars, op, request, calls, receipt, bridgeNonce, probes,
                   ctxCancelled, result, readVia>>

\* ------------------------------------------------- GetTransactionStatus
\* what one TransactionReceipt lookup returns: an error (NoReceipt) or the
\* receipt of a mined transaction
StatusLookups ==
    {NoReceipt, [Status |-> ReceiptStatusSuccessful, Logs |-> <<>>],
     [Status |-> ReceiptStatusFailed, Logs |-> <<>>]}

\* what TransactionByHash returns: an error, a pending transaction, or a
\* transaction that is not pending
ByHashReplies == {"error", "pending", "mined"}

\* BlockchainService.GetTransactionStatus(ctx, chainID, txHash). When the
\* receipt lookup fails and the transaction is not pending, control leaves
\* the error branch with receipt == nil and receipt.Status panics.
GetTransactionStatus(chainID, alive, lookup, byHash) ==
    LET g == GetClient(chainID, alive)
    IN  IF g.err # <<>>
        THEN [err |-> g.err, status |-> "", panics |-> FALSE, probes |-> g.probes]
        ELSE IF lookup = NoReceipt /\ byHash = "error"
        THEN [err |-> Wrap("failed to check transaction status", <<"rpc error">>),
              status |-> "", panics |-> FALSE, probes |-> g.probes]
        ELSE IF lookup = NoReceipt /\ byHash = "pending"
        THEN [err |-> <<>>, status |-> "pending", panics |-> FALSE, probes |-> g.probes]
        ELSE IF lookup = NoReceipt
        THEN [err |-> <<>>, status |-> "", panics |-> TRUE, probes |-> g.probes]
        ELSE [err |-> <<>>, status |-> TransactionStatus(lookup), panics |-> FALSE,
              probes |-> g.probes]

\* the service's GetTransactionStatus is called and returns, or panics
CallGetTransactionStatus ==
    /\ pc = "idle"
    /\ \E chainID \in RequestChains, lookup \in StatusLookups, byHash \in ByHashReplies :
       \E alive \in ProbeOutcomes(chainID) :
          LET r == GetTransactionStatus(chainID, alive, lookup, byHash)
          IN  /\ op' = "GetTransactionStatus"
              /\ request' = BridgeRequest(TokenAmount(0, 0, 0), 0, chainID)
              /\ pc' = IF r.panics THEN "panic" ELSE "done"
              /\ err' = r.err
              /\ txStatus' = r.status
              /\ receipt' = IF GetClient(chainID, alive).err = <<>> THEN lookup
                            ELSE NoReceipt
              /\ probes' = r.probes
    /\ UNCHANGED <<poolVars, chainVars, calls, bridgeNonce, elapsed, polls, ctxCancelled,
                   result, readVia>>

\* if receipt.Status != types.ReceiptStatusSuccessful
CheckStatus ==
    /\ pc = "receipt"
    /\ op = "CompleteBridge"
    /\ IF receipt.Status # ReceiptStatusSuccessful
       THEN Return(<<"burn transaction reverted">>)
       ELSE /\ pc' = "extract"
            /\ UNCHANGED <<err, elapsed, polls>>
    /\ UNCHANGED <<poolVars, chainVars, op, request, txStatus, result, readVia, calls, receipt, bridgeNonce, probes,
                   ctxCancelled>>

\* Step 3: extract the bridge nonce from the burn event
ExtractStep ==
    /\ pc = "extract"
    /\ LET r == extractBridgeNonceFromReceipt(receipt)
       IN  IF r.err # <<>>
           THEN /\ Return(Wrap("failed to extract bridge nonce", r.err))
                /\ bridgeNonce' = bridgeNonce
           ELSE /\ pc' = "mint"
                /\ bridgeNonce' = r.nonce
                /\ UNCHANGED <<err, elapsed, polls>>
    /\ UNCHANGED <<poolVars, chainVars, op, request, txStatus, result, readVia, calls, receipt, probes,
                   ctxCancelled>>

\* Step 4: mint on the destination chain; the call returns once the
\* transaction is submitted
MintStep ==
    /\ pc = "mint"
    /\ \E alive \in ProbeOutcomes(request.ToChainID),
          reply \in ChainIDReplies(request.ToChainID),
          sent \in BOOLEAN, cancelled \in BOOLEAN :
          LET r == MintBridge(request.ToChainID, request.Amount, request.FromChainID,
                              bridgeNonce, alive, reply, sent, cancelled)
          IN  /\ probes' = r.probes
              /\ IF r.err # <<>>
                 THEN /\ Return(Wrap("failed to mint on destination chain", r.err))
                      /\ ctxCancelled' = cancelled
                      /\ UNCHANGED <<calls, mintTx>>
                 ELSE /\ Return(<<>>)
                      /\ calls' = Append(calls, r.tx)
                      /\ mintTx' = [status |-> "pending",
                                    key |-> <<r.tx.chain, r.tx.peer, r.tx.nonce>>]
                      /\ UNCHANGED ctxCancelled
    /\ UNCHANGED <<poolVars, bridgeNonces, usedNonces, op, request, txStatus, result, readVia, receipt, bridgeNonce>>

\* ----------------------------------------------------------- environment
\* the destination chain mines the mintForBridge transaction: the contract
\* reverts a replayed (source chain, nonce) and may revert for other reasons
MineMint ==
    /\ mintTx.status = "pending"
    /\ \E ok \in BOOLEAN :
          IF ok /\ mintTx.key \notin usedNonces
          THEN /\ mintTx' = [mintTx EXCEPT !.status = "success"]
               /\ usedNonces' = usedNonces \cup {mintTx.key}
          ELSE /\ mintTx' = [mintTx EXCEPT !.status = "reverted"]
               /\ usedNonces' = usedNonces
    /\ UNCHANGED <<poolVars, callVars, bridgeNonces>>

Next ==
    \/ CallTransfer
    \/ CallMint
    \/ CallBurn
    \/ CallBalanceOf
    \/ CallTotalSupply
    \/ CallServiceTransfer
    \/ CallBurnForRedemption
    \/ CallInitiateBridge
    \/ StartCompleteBridge
    \/ StartWaitForTransaction
    \/ ServiceReturn
    \/ CallGetTransactionStatus
    \/ BurnStep
    \/ WaitStart
    \/ PollTick
    \/ PollTimeout
    \/ CheckStatus
    \/ ExtractStep
    \/ MintStep
    \/ MineMint

Spec == Init /\ [][Next]_vars


\* ------------------------------------------- the pool under concurrency
\* GetClient, GetContract and Close step by step, one goroutine at a time,
\* under Client.mutex (a sync.RWMutex: a pending Lock blocks new RLock calls)

\* network names a caller passes to GetClientByNetwork
RequestNetworks == {"GnosisMainnet", "BSCMainnet", "UnknownNetwork"}

\* GetNetworkConfig: config, exists := SupportedNetworks[networkName]
GetNetworkConfig(networkName) ==
    IF networkName \in NetworkNames
    THEN [exists |-> TRUE, config |-> SupportedNetworks[networkName]]
    ELSE [exists |-> FALSE, config |-> NetworkConfig(0, "", <<>>, 0, 0, 0, 0)]

\* a pool call of goroutine g returns; the deferred RUnlock runs
PoolReturn(g, client, e) ==
    /\ rwReaders' = rwReaders \ {g}
    /\ held' = [held EXCEPT ![g] = client]
    /\ gerr' = [gerr EXCEPT ![g] = e]
    /\ gpc' = [gpc EXCEPT ![g] = IF client = NoClient THEN "idle" ELSE "holding"]
    /\ gidx' = [gidx EXCEPT ![g] = 0]

\* a GetClient that reports success whatever it returns
GetClientReturn_NilError(g, client) == PoolReturn(g, client, <<>>)

\* the result GetClient returns to goroutine g
GetClientReturn(g, client) ==
    PoolReturn(g, client,
               IF client # NoClient THEN <<>>
               ELSE IF gchain[g] \notin DOMAIN clients
               THEN <<"chain ID not supported or not connected">>
               ELSE <<"no available clients for chain ID">>)

\* c.mutex.RLock() of a call that reads the maps for chainID
RLock(g, chainID, next) ==
    /\ gpc[g] = "idle"
    /\ ~rwWriter /\ ~rwWaiting
    /\ gchain' = [gchain EXCEPT ![g] = chainID]
    /\ rwReaders' = rwReaders \cup {g}
    /\ gpc' = [gpc EXCEPT ![g] = next]
    /\ gerr' = [gerr EXCEPT ![g] = <<>>]
    /\ gfailed' = [gfailed EXCEPT ![g] = <<>>]
    /\ UNCHANGED <<newVars, clients, contracts, closed, closeCalls, rwWriter, rwWaiting,
                   gidx, held, toClose, callVars, chainVars, apiVars>>

\* c.mutex.RLock() of GetClient(chainID)
AcquireRLock(g) ==
    /\ gpc[g] = "idle"
    /\ \E chainID \in RequestChains : RLock(g, chainID, "lookup")

\* GetClientByNetwork(networkName): the registry lookup, then GetClient
AcquireByNetwork(g) ==
    /\ gpc[g] = "idle"
    /\ \E networkName \in RequestNetworks :
          LET r == GetNetworkConfig(networkName)
          IN  IF r.exists THEN RLock(g, r.config.ChainID, "lookup")
              ELSE /\ gerr' = [gerr EXCEPT ![g] = <<"network not supported">>]
                   /\ gfailed' = [gfailed EXCEPT ![g] = <<>>]
                   /\ gchain' = [gchain EXCEPT ![g] = 0]
                   /\ UNCHANGED <<newVars, clients, contracts, closed, closeCalls, lockVars,
                                  gpc, gidx, held, toClose, callVars, chainVars, apiVars>>

\* clients, exists := c.clients[chainID]
AcquireLookup(g) ==
    /\ gpc[g] = "lookup"
    /\ IF gchain[g] \notin DOMAIN clients
       THEN GetClientReturn(g, NoClient)
       ELSE /\ gpc' = [gpc EXCEPT ![g] = "probe"]
            /\ gidx' = [gidx EXCEPT ![g] = 1]
            /\ UNCHANGED <<rwReaders, held, gerr>>
    /\ UNCHANGED <<newVars, clients, contracts, closed, closeCalls, rwWriter, rwWaiting,
                   gchain, gfailed, toClose, callVars, chainVars, apiVars>>

\* a selection that returns any connection of the chain, unprobed
AcquireProbe_AnyOrder(g) ==
    /\ gpc[g] = "probe"
    /\ \E i \in 1..Len(clients[gchain[g]]) :
          GetClientReturn(g, clients[gchain[g]][i])
    /\ UNCHANGED <<newVars, clients, contracts, closed, closeCalls, rwWriter, rwWaiting,
                   gchain, gfailed, toClose, callVars, chainVars, apiVars>>

\* a failover loop that drops a connection from the pool when its probe fails
AcquireProbe_DropFailed(g) ==
    /\ gpc[g] = "probe"
    /\ LET cs == clients[gchain[g]]
       IN  /\ clients' = [clients EXCEPT ![gchain[g]] = Tail(cs)]
           /\ gfailed' = [gfailed EXCEPT ![g] = Append(@, Head(cs))]
           /\ IF Len(cs) = 1 THEN GetClientReturn(g, NoClient)
              ELSE UNCHANGED <<rwReaders, held, gerr, gpc, gidx>>
    /\ UNCHANGED <<newVars, contracts, closed, closeCalls, rwWriter, rwWaiting,
                   gchain, toClose, callVars, chainVars, apiVars>>

\* one iteration of the failover loop: client.ChainID(ctx) on the next
\* connection; the first that answers is returned
AcquireProbe(g) ==
    /\ gpc[g] = "probe"
    /\ \E ok \in BOOLEAN :
          LET cs == clients[gchain[g]]
          IN  IF ok
              THEN /\ GetClientReturn(g, cs[gidx[g]])
                   /\ UNCHANGED gfailed
              ELSE /\ gfailed' = [gfailed EXCEPT ![g] = Append(@, cs[gidx[g]])]
                   /\ IF gidx[g] = Len(cs) THEN GetClientReturn(g, NoClient)
                      ELSE /\ gidx' = [gidx EXCEPT ![g] = @ + 1]
                           /\ UNCHANGED <<rwReaders, held, gerr, gpc>>
    /\ UNCHANGED <<newVars, clients, contracts, closed, closeCalls, rwWriter, rwWaiting,
                   gchain, toClose, callVars, chainVars, apiVars>>

\* c.mutex.RLock() of GetContract(chainID)
ContractRLock(g) ==
    /\ gpc[g] = "idle"
    /\ \E chainID \in RequestChains : RLock(g, chainID, "contract")

\* contract, exists := c.contracts[chainID], and the return
ContractLookup(g) ==
    /\ gpc[g] = "contract"
    /\ PoolReturn(g, NoClient, GetContract(gchain[g]).err)
    /\ UNCHANGED <<newVars, clients, contracts, closed, closeCalls, rwWriter, rwWaiting,
                   gchain, gfailed, toClose, callVars, chainVars, apiVars>>

\* the caller, which issued its requests on the connection while holding it
\* (the ticker branch of WaitForTransaction), returns and drops it
ReleaseClient(g) ==
    /\ gpc[g] = "holding"
    /\ gpc' = [gpc EXCEPT ![g] = "idle"]
    /\ held' = [held EXCEPT ![g] = NoClient]
    /\ gchain' = [gchain EXCEPT ![g] = 0]
    /\ gfailed' = [gfailed EXCEPT ![g] = <<>>]
    /\ UNCHANGED <<newVars, clients, contracts, closed, closeCalls, lockVars, gidx, gerr,
                   toClose, callVars, chainVars, apiVars>>

\* Close() is called: c.mutex.Lock() announces the writer
CloseCall ==
    /\ gpc[Closer] = "idle"
    /\ \A c \in AllEndpoints : closeCalls[c] < MaxCloses
    /\ rwWaiting' = TRUE
    /\ gpc' = [gpc EXCEPT ![Closer] = "locking"]
    /\ UNCHANGED <<newVars, clients, contracts, closed, closeCalls, rwReaders, rwWriter,
                   gchain, gidx, held, gerr, gfailed, toClose, callVars, chainVars, apiVars>>

\* a Lock() that does not wait for the readers
CloseLock_NoWait ==
    /\ gpc[Closer] = "locking"
    /\ rwWriter' = TRUE
    /\ rwWaiting' = FALSE
    /\ toClose' = DOMAIN clients
    /\ gpc' = [gpc EXCEPT ![Closer] = "closing"]
    /\ UNCHANGED <<newVars, clients, contracts, closed, closeCalls, rwReaders,
                   gchain, gidx, held, gerr, gfailed, callVars, chainVars, apiVars>>

\* c.mutex.Lock() returns once the readers have left
CloseLock ==
    /\ gpc[Closer] = "locking"
    /\ rwReaders = {}
    /\ rwWriter' = TRUE
    /\ rwWaiting' = FALSE
    /\ toClose' = DOMAIN clients
    /\ gpc' = [gpc EXCEPT ![Closer] = "closing"]
    /\ UNCHANGED <<newVars, clients, contracts, closed, closeCalls, rwReaders,
                   gchain, gidx, held, gerr, gfailed, callVars, chainVars, apiVars>>

\* a loop that closes only the first connection of each chain
CloseChain_FirstOnly ==
    /\ gpc[Closer] = "closing"
    /\ \E chainID \in toClose :
          /\ toClose' = toClose \ {chainID}
          /\ closed' = closed \cup {clients[chainID][1]}
          /\ closeCalls' = [c \in AllEndpoints |->
                               IF c = clients[chainID][1] THEN closeCalls[c] + 1
                               ELSE closeCalls[c]]
    /\ UNCHANGED <<newVars, clients, contracts, lockVars, gpc, gchain, gidx, held, gerr,
                   gfailed, callVars, chainVars, apiVars>>

\* one iteration of the loop over c.clients (a map: any order): Close() on
\* every connection of the chain
CloseChain ==
    /\ gpc[Closer] = "closing"
    /\ \E chainID \in toClose :
          /\ toClose' = toClose \ {chainID}
          /\ closed' = closed \cup ConnsOf(chainID)
          /\ closeCalls' = [c \in AllEndpoints |->
                               IF c \in ConnsOf(chainID) THEN closeCalls[c] + 1
                               ELSE closeCalls[c]]
    /\ UNCHANGED <<newVars, clients, contracts, lockVars, gpc, gchain, gidx, held, gerr,
                   gfailed, callVars, chainVars, apiVars>>

\* the loop is over; the deferred c.mutex.Unlock() runs
CloseReturn ==
    /\ gpc[Closer] = "closing"
    /\ toClose = {}
    /\ rwWriter' = FALSE
    /\ gpc' = [gpc EXCEPT ![Closer] = "idle"]
    /\ UNCHANGED <<newVars, clients, contracts, closed, closeCalls, rwReaders, rwWaiting,
                   gchain, gidx, held, gerr, gfailed, toClose, callVars, chainVars, apiVars>>

NextPool ==
    \/ \E g \in Acquirers : AcquireRLock(g)
    \/ \E g \in Acquirers : AcquireByNetwork(g)
    \/ \E g \in Acquirers : AcquireLookup(g)
    \/ \E g \in Acquirers : AcquireProbe(g)
    \/ \E g \in Acquirers : ContractRLock(g)
    \/ \E g \in Acquirers : ContractLookup(g)
    \/ \E g \in Acquirers : ReleaseClient(g)
    \/ CloseCall
    \/ CloseLock
    \/ CloseChain
    \/ CloseReturn

\* the pool of a constructed client whose contracts have bridged nothing yet
InitPool == Init /\ \A c \in BridgedChains : bridgeNonces[c] = 0

SpecPool == InitPool /\ [][NextPool]_vars

\* the operations on a client whose contracts have bridged nothing yet, with
\* the ticker ticking and the timer of timeoutCtx firing: a waiter in its
\* select loop takes one of the two branches
SpecLive == InitPool /\ [][Next]_vars /\ WF_vars(PollTick \/ PollTimeout)

\* ------------------------------------------------------------ construction
\* NewClient as one call, from a configuration and an environment in which
\* some endpoints do not answer the dial

\* dial failures a construction may meet, over every endpoint of the registry
NewDialFailures ==
    {F \in SUBSET AllEndpoints : Cardinality(F) <= MaxFailedDials}

\* the networks initializeNetworks dials: those with a contract address
DeployedNetworks == {n \in NetworkNames : SupportedNetworks[n].HasContract}

EndpointsOf(n) ==
    {<<SupportedNetworks[n].ChainID, i>> :
        i \in 1..Len(SupportedNetworks[n].RPCEndpoints)}

InitNew ==
    /\ keyParsed \in BOOLEAN
    /\ dialFailed \in NewDialFailures
    /\ opened = {}
    /\ constructed = "new"
    /\ newErr = <<>>
    /\ sdk = NoSDK
    /\ app = NoApp
    /\ rest = NoRest
    /\ clients = <<>>
    /\ contracts = <<>>
    /\ closed = {}
    /\ closeCalls = [c \in AllEndpoints |-> 0]
    /\ rwReaders = {}
    /\ rwWriter = FALSE
    /\ rwWaiting = FALSE
    /\ gpc = [g \in Goroutines |-> "idle"]
    /\ gchain = [g \in Acquirers |-> 0]
    /\ gidx = [g \in Acquirers |-> 0]
    /\ held = [g \in Acquirers |-> NoClient]
    /\ gerr = [g \in Acquirers |-> <<>>]
    /\ gfailed = [g \in Acquirers |-> <<>>]
    /\ toClose = {}
    /\ pc = "idle"
    /\ op = ""
    /\ request = NoRequest
    /\ err = <<>>
    /\ calls = <<>>
    /\ receipt = NoReceipt
    /\ bridgeNonce = NoNonce
    /\ elapsed = 0
    /\ polls = 0
    /\ probes = 0
    /\ ctxCancelled = FALSE
    /\ txStatus = ""
    /\ result = NoAmount
    /\ readVia = NoClient
    /\ mintTx = NoMintTx
    /\ bridgeNonces = [c \in BridgedChains |-> 0]
    /\ usedNonces = {}

\* NewClient(config): parse the key, then initializeNetworks. The loop over
\* SupportedNetworks (a map: any order) returns at the first network none of
\* whose endpoints answered; the networks visited before it were dialed.
Construct ==
    /\ constructed = "new"
    /\ IF ~keyParsed
       THEN /\ constructed' = "failed"
            /\ newErr' = <<"failed to parse private key">>
            /\ UNCHANGED <<clients, contracts, opened>>
       ELSE LET r == initializeNetworks(dialFailed)
                good == {n \in DeployedNetworks : EndpointsOf(n) \ dialFailed # {}}
            IN  IF r.err = <<>>
                THEN /\ constructed' = "ok"
                     /\ newErr' = <<>>
                     /\ clients' = r.clients
                     /\ contracts' = r.contracts
                     /\ opened' = UNION {EndpointsOf(n) \ dialFailed : n \in good}
                ELSE /\ constructed' = "failed"
                     /\ newErr' = Wrap("failed to initialize networks", r.err)
                     /\ \E visited \in SUBSET good :
                           opened' = UNION {EndpointsOf(n) \ dialFailed : n \in visited}
                     /\ UNCHANGED <<clients, contracts>>
    /\ UNCHANGED <<keyParsed, dialFailed, closed, closeCalls, lockVars, procVars,
                   callVars, chainVars>>

\* the application calls blockchain.NewClient itself and gets (client, err)
NewClient ==
    /\ sdk = NoSDK
    /\ Construct
    /\ UNCHANGED apiVars

\* idrx.NewClient(idrx.WithBlockchain(key)): the option calls
\* blockchain.NewClient, returns without a word when it failed and sets
\* c.Blockchain otherwise; idrx.NewClient returns the client, and nothing else
WithBlockchain ==
    /\ sdk = NoSDK
    /\ Construct
    /\ sdk' = [returned |-> TRUE, Blockchain |-> (newErr' = <<>>)]
    /\ UNCHANGED <<app, rest>>

NextNew ==
    \/ NewClient
    \/ WithBlockchain

SpecNew == InitNew /\ [][NextNew]_vars

\* ---------------------------------------------------------- pure functions
\* the registry's lookups and the TokenAmount conversions, each applied once to
\* an argument drawn from a bounded set

\* names a caller looks up: the keys of the registry, the display name of a
\* network, the name the registry's tests call invalid, and the empty string
NameInputs == NetworkNames \cup {"Base", "InvalidNetwork", ""}

\* chain IDs a caller looks up: the registered ones, the one the registry's
\* tests call invalid, and two small ones
ChainInputs == RegisteredChainIDs \cup {UnknownChainID, 0, 1}

\* precisions a conversion runs at: those of the registry and the one the
\* service parses with
PrecisionInputs == {0, 2, ServiceDecimals}

\* amounts a conversion is applied to: coefficients around zero, the last
\* digit from MaxExtraDigits below the base unit to MaxSpareDigits above it
AmountInputs ==
    {a \in {TokenAmount(v, x, d) :
                v \in (-MaxCoefficient)..MaxCoefficient,
                x \in (-(ServiceDecimals + MaxExtraDigits))..0,
                d \in PrecisionInputs} :
        a.Exp + a.Decimals \in (-MaxExtraDigits)..MaxSpareDigits}
    \cup {TokenAmount(10005, -1, 2), TokenAmount(100050, -2, 2)}

\* amount strings a caller parses, at the precisions of the registry
TextInputs ==
    [Str : {<<"1", "0", "0", "0", ".", "5", "0">>,
            <<"1", "0", "0", "0", ".", "5">>,
            <<"1", "0", "0", "0">>,
            <<"0", ".", "0", "0", "1">>,
            <<"-", "2", ".", "5">>,
            <<".", "5">>,
            <<"1", ".", "2", ".", "3">>,
            <<"a", "b", "c">>,
            <<"-">>,
            <<>>},
     Decimals : {0, 2}]

\* base units a contract returns, with the precision they are read at
WeiInputs == [Wei : {-1, 0, 1, 5, 149, 100050}, Decimals : PrecisionInputs]

Input(kind, arg) == [kind |-> kind, arg |-> arg, fn |-> "", out |-> 0]

\* nothing is running: no client was constructed, no operation started
InitFun ==
    /\ keyParsed = TRUE
    /\ dialFailed = {}
    /\ opened = {}
    /\ constructed = "new"
    /\ newErr = <<>>
    /\ sdk = NoSDK
    /\ rest = NoRest
    /\ \/ \E n \in NameInputs : app = Input("name", n)
       \/ \E c \in ChainInputs : app = Input("chain", c)
       \/ \E a \in AmountInputs : app = Input("amount", a)
       \/ \E w \in WeiInputs : app = Input("wei", w)
       \/ \E t \in TextInputs : app = Input("text", t)
    /\ clients = <<>>
    /\ contracts = <<>>
    /\ closed = {}
    /\ closeCalls = [c \in AllEndpoints |-> 0]
    /\ rwReaders = {}
    /\ rwWriter = FALSE
    /\ rwWaiting = FALSE
    /\ gpc = [g \in Goroutines |-> "idle"]
    /\ gchain = [g \in Acquirers |-> 0]
    /\ gidx = [g \in Acquirers |-> 0]
    /\ held = [g \in Acquirers |-> NoClient]
    /\ gerr = [g \in Acquirers |-> <<>>]
    /\ gfailed = [g \in Acquirers |-> <<>>]
    /\ toClose = {}
    /\ pc = "idle"
    /\ op = ""
    /\ request = NoRequest
    /\ err = <<>>
    /\ calls = <<>>
    /\ receipt = NoReceipt
    /\ bridgeNonce = NoNonce
    /\ elapsed = 0
    /\ polls = 0
    /\ probes = 0
    /\ ctxCancelled = FALSE
    /\ txStatus = ""
    /\ result = NoAmount
    /\ readVia = NoClient
    /\ mintTx = NoMintTx
    /\ bridgeNonces = [c \in BridgedChains |-> 0]
    /\ usedNonces = {}

\* fn is called on the argument and returns out
Apply(kind, fn, out) ==
    /\ app.kind = kind
    /\ app' = [app EXCEPT !.fn = fn, !.out = out]
    /\ UNCHANGED <<clients, contracts, closed, closeCalls, lockVars, procVars, newVars,
                   sdk, rest, callVars, chainVars>>

ApplyGetNetworkConfig ==
    /\ app.fn = ""
    /\ Apply("name", "GetNetworkConfig", GetNetworkConfig(app.arg))

ApplyIsNetworkSupported ==
    /\ app.fn = ""
    /\ Apply("name", "IsNetworkSupported", IsNetworkSupported(app.arg))

ApplyGetNetworkConfigByChainID ==
    /\ app.fn = ""
    /\ Apply("chain", "GetNetworkConfigByChainID", GetNetworkConfigByChainID(app.arg))

ApplyGetNetworkNameByChainID ==
    /\ app.fn = ""
    /\ Apply("chain", "GetNetworkNameByChainID", GetNetworkNameByChainID(app.arg))

ApplyIsChainSupported ==
    /\ app.fn = ""
    /\ Apply("chain", "IsChainSupported", IsChainSupported(app.arg))

ApplyGetDecimals ==
    /\ app.fn = ""
    /\ Apply("chain", "GetDecimals", GetDecimals(app.arg))

ApplyToWei ==
    /\ app.fn = ""
    /\ Apply("amount", "ToWei", ToWei(app.arg))

ApplyFromWei ==
    /\ app.fn = ""
    /\ Apply("wei", "FromWei", FromWei(app.arg.Wei, app.arg.Decimals))

ApplyParseTokenAmount ==
    /\ app.fn = ""
    /\ Apply("text", "ParseTokenAmount", ParseTokenAmount(app.arg.Str, app.arg.Decimals))

ApplyString ==
    /\ app.fn = ""
    /\ Apply("amount", "String", String(app.arg))

NextFun ==
    \/ ApplyGetNetworkConfig
    \/ ApplyIsNetworkSupported
    \/ ApplyGetNetworkConfigByChainID
    \/ ApplyGetNetworkNameByChainID
    \/ ApplyIsChainSupported
    \/ ApplyGetDecimals
    \/ ApplyToWei
    \/ ApplyFromWei
    \/ ApplyParseTokenAmount
    \/ ApplyString

SpecFun == InitFun /\ [][NextFun]_vars

\* ------------------------------------------------------- REST operations
\* A request is a pointer to a struct: Nil or Ptr(record). A string field is
\* "" when it was left out; IDFile and the amounts of a RatesRequest are
\* pointers themselves.
MaxPage == 2

MaxTake == 100

StringInputs == {"", "x"}

MintInputs ==
    {Nil} \cup
    {Ptr([ToBeMinted |-> a, DestinationWalletAddress |-> b, NetworkChainID |-> c,
          ExpiryPeriod |-> e]) :
        a \in StringInputs, b \in StringInputs, c \in StringInputs, e \in -1..1}

RedeemInputs ==
    {Nil} \cup
    {Ptr([TxHash |-> a, NetworkChainID |-> b, AmountTransfer |-> c, BankAccount |-> d,
          BankCode |-> e, BankName |-> f, BankAccountName |-> g, WalletAddress |-> h,
          Notes |-> i]) :
        a \in StringInputs, b \in StringInputs, c \in StringInputs, d \in StringInputs,
        e \in StringInputs, f \in StringInputs, g \in StringInputs, h \in StringInputs,
        i \in StringInputs}

BridgeInputs ==
    {Nil} \cup
    {Ptr([FromChainID |-> a, ToChainID |-> b, Amount |-> c, WalletAddress |-> d,
          DestinationAddress |-> e]) :
        a \in StringInputs, b \in StringInputs, c \in StringInputs, d \in StringInputs,
        e \in StringInputs}

AmountPointers == {Nil} \cup {Ptr(a) : a \in StringInputs}

RatesInputs ==
    {Nil} \cup {Ptr([IDRXAmount |-> a, USDTAmount |-> b]) :
                   a \in AmountPointers, b \in AmountPointers}

FeesInputs == {Nil} \cup {Ptr([FeeType |-> a]) : a \in StringInputs}

PageInputs == -1..MaxPage

TakeInputs == {-1, 0, 1, MaxTake, MaxTake + 1}

HistoryInputs ==
    {Nil} \cup {Ptr([TransactionType |-> a, Page |-> p, Take |-> t]) :
                   a \in StringInputs, p \in PageInputs, t \in TakeInputs}

OnboardingInputs ==
    {Nil} \cup
    {Ptr([Email |-> a, Fullname |-> b, Address |-> c, IDNumber |-> d, IDFile |-> f]) :
        a \in StringInputs, b \in StringInputs, c \in StringInputs, d \in StringInputs,
        f \in {Nil, Ptr("file")}}

BankAccountInputs ==
    {Nil} \cup {Ptr([BankAccountNumber |-> a, BankCode |-> b]) :
                   a \in StringInputs, b \in StringInputs}

\* what happens after validation: "ok", or the step that fails
JSONReplies == {"ok", "failed"}

QueryReplies == {"ok", "query", "failed"}

MultipartReplies == {"ok", "form", "build", "auth", "failed", "parse"}

\* validateMintRequest(req)
validateMintRequest(req) ==
    IF req.ToBeMinted = "" THEN <<"toBeMinted is required">>
    ELSE IF req.DestinationWalletAddress = ""
    THEN <<"destinationWalletAddress is required">>
    ELSE IF req.NetworkChainID = "" THEN <<"networkChainId is required">>
    ELSE IF req.ExpiryPeriod <= 0 THEN <<"expiryPeriod must be greater than 0">>
    ELSE <<>>

\* validateRedeemRequest, checking the notes before the other fields
validateRedeemRequest_NotesFirst(req) ==
    IF req.Notes = "" THEN <<"notes is required">>
    ELSE IF req.TxHash = "" THEN <<"txHash is required">>
    ELSE IF req.NetworkChainID = "" THEN <<"networkChainId is required">>
    ELSE IF req.AmountTransfer = "" THEN <<"amountTransfer is required">>
    ELSE IF req.BankAccount = "" THEN <<"bankAccount is required">>
    ELSE IF req.BankCode = "" THEN <<"bankCode is required">>
    ELSE IF req.BankName = "" THEN <<"bankName is required">>
    ELSE IF req.BankAccountName = "" THEN <<"bankAccountName is required">>
    ELSE IF req.WalletAddress = "" THEN <<"walletAddress is required">>
    ELSE <<>>

\* validateRedeemRequest(req)
validateRedeemRequest(req) ==
    IF req.TxHash = "" THEN <<"txHash is required">>
    ELSE IF req.NetworkChainID = "" THEN <<"networkChainId is required">>
    ELSE IF req.AmountTransfer = "" THEN <<"amountTransfer is required">>
    ELSE IF req.BankAccount = "" THEN <<"bankAccount is required">>
    ELSE IF req.BankCode = "" THEN <<"bankCode is required">>
    ELSE IF req.BankName = "" THEN <<"bankName is required">>
    ELSE IF req.BankAccountName = "" THEN <<"bankAccountName is required">>
    ELSE IF req.WalletAddress = "" THEN <<"walletAddress is required">>
    ELSE IF req.Notes = "" THEN <<"notes is required">>
    ELSE <<>>

\* validateBridgeRequest(req)
validateBridgeRequest(req) ==
    IF req.FromChainID = "" THEN <<"fromChainId is required">>
    ELSE IF req.ToChainID = "" THEN <<"toChainId is required">>
    ELSE IF req.Amount = "" THEN <<"amount is required">>
    ELSE IF req.WalletAddress = "" THEN <<"walletAddress is required">>
    ELSE IF req.DestinationAddress = "" THEN <<"destinationAddress is required">>
    ELSE <<>>

\* validateRatesRequest(req): exactly one of the two amounts
validateRatesRequest(req) ==
    LET hasIDRXAmount == req.IDRXAmount # Nil /\ req.IDRXAmount[1] # ""
        hasUSDTAmount == req.USDTAmount # Nil /\ req.USDTAmount[1] # ""
    IN  IF ~hasIDRXAmount /\ ~hasUSDTAmount
        THEN <<"either idrxAmount or usdtAmount must be provided">>
        ELSE IF hasIDRXAmount /\ hasUSDTAmount
        THEN <<"only one of idrxAmount or usdtAmount should be provided">>
        ELSE <<>>

\* validateTransactionHistoryRequest without the upper limit of take
validateTransactionHistoryRequest_NoMax(req) ==
    IF req.TransactionType = "" THEN <<"transactionType is required">>
    ELSE IF req.Page <= 0 THEN <<"page must be greater than 0">>
    ELSE IF req.Take <= 0 THEN <<"take must be greater than 0">>
    ELSE <<>>

\* validateTransactionHistoryRequest(req)
validateTransactionHistoryRequest(req) ==
    IF req.TransactionType = "" THEN <<"transactionType is required">>
    ELSE IF req.Page <= 0 THEN <<"page must be greater than 0">>
    ELSE IF req.Take <= 0 THEN <<"take must be greater than 0">>
    ELSE IF req.Take > MaxTake THEN <<"take cannot be greater than 100">>
    ELSE <<>>

\* validateOnboardingRequest(req)
validateOnboardingRequest(req) ==
    IF req.Email = "" THEN <<"email is required">>
    ELSE IF req.Fullname = "" THEN <<"fullname is required">>
    ELSE IF req.Address = "" THEN <<"address is required">>
    ELSE IF req.IDNumber = "" THEN <<"ID number is required">>
    ELSE IF req.IDFile = Nil THEN <<"ID file is required">>
    ELSE <<>>

\* what an operation returns: its error and the HTTP requests it sent
Rejected(e) == [err |-> e, sent |-> 0]

\* client.doRequest(ctx, method, path, body, &response): one HTTP request
doRequest(reply, msg) ==
    [err |-> IF reply = "ok" THEN <<>> ELSE Wrap(msg, <<"request failed">>), sent |-> 1]

\* buildQueryParams, then doRequest with GET
getRequest(reply, msg) ==
    IF reply = "query"
    THEN Rejected(Wrap("failed to build query parameters", <<"encode">>))
    ELSE doRequest(reply, msg)

\* the multipart form, the request, its authentication, httpClient.Do and
\* parseResponse, as Onboard and AddBankAccount run them
multipartRequest(reply) ==
    IF reply = "form" THEN Rejected(Wrap("failed to create multipart form", <<"form">>))
    ELSE IF reply = "build" THEN Rejected(Wrap("failed to build request", <<"build">>))
    ELSE IF reply = "auth" THEN Rejected(Wrap("authentication failed", <<"auth">>))
    ELSE IF reply = "failed"
    THEN [err |-> Wrap("request failed", <<"transport">>), sent |-> 1]
    ELSE IF reply = "parse" THEN [err |-> <<"parse">>, sent |-> 1]
    ELSE [err |-> <<>>, sent |-> 1]

\* TransactionService.MintRequest(ctx, req)
MintRequest(req, reply) ==
    IF req = Nil THEN Rejected(<<"mint request cannot be nil">>)
    ELSE IF validateMintRequest(req[1]) # <<>>
    THEN Rejected(Wrap("validation failed", validateMintRequest(req[1])))
    ELSE doRequest(reply, "failed to create mint request")

\* TransactionService.RedeemRequest(ctx, req)
RedeemRequest(req, reply) ==
    IF req = Nil THEN Rejected(<<"redeem request cannot be nil">>)
    ELSE IF validateRedeemRequest(req[1]) # <<>>
    THEN Rejected(Wrap("validation failed", validateRedeemRequest(req[1])))
    ELSE doRequest(reply, "failed to create redeem request")

\* TransactionService.BridgeRequest(ctx, req)
TransactionService_BridgeRequest(req, reply) ==
    IF req = Nil THEN Rejected(<<"bridge request cannot be nil">>)
    ELSE IF validateBridgeRequest(req[1]) # <<>>
    THEN Rejected(Wrap("validation failed", validateBridgeRequest(req[1])))
    ELSE doRequest(reply, "failed to create bridge request")

\* TransactionService.GetRates(ctx, req)
GetRates(req, reply) ==
    IF req = Nil THEN Rejected(<<"rates request cannot be nil">>)
    ELSE IF validateRatesRequest(req[1]) # <<>>
    THEN Rejected(Wrap("validation failed", validateRatesRequest(req[1])))
    ELSE getRequest(reply, "failed to get rates")

\* TransactionService.GetAdditionalFees(ctx, req)
GetAdditionalFees(req, reply) ==
    IF req = Nil THEN Rejected(<<"fees request cannot be nil">>)
    ELSE IF req[1].FeeType = "" THEN Rejected(<<"fee type is required">>)
    ELSE getRequest(reply, "failed to get additional fees")

\* TransactionService.GetTransactionHistory(ctx, req)
GetTransactionHistory(req, reply) ==
    IF req = Nil THEN Rejected(<<"transaction history request cannot be nil">>)
    ELSE IF validateTransactionHistoryRequest(req[1]) # <<>>
    THEN Rejected(Wrap("validation failed", validateTransactionHistoryRequest(req[1])))
    ELSE getRequest(reply, "failed to get transaction history")

\* AccountService.Onboard(ctx, req)
Onboard(req, reply) ==
    IF req = Nil THEN Rejected(<<"onboarding request cannot be nil">>)
    ELSE IF validateOnboardingRequest(req[1]) # <<>>
    THEN Rejected(Wrap("validation failed", validateOnboardingRequest(req[1])))
    ELSE multipartRequest(reply)

\* AccountService.AddBankAccount(ctx, req)
AddBankAccount(req, reply) ==
    IF req = Nil THEN Rejected(<<"add bank account request cannot be nil">>)
    ELSE IF req[1].BankAccountNumber = "" THEN Rejected(<<"bank account number is required">>)
    ELSE IF req[1].BankCode = "" THEN Rejected(<<"bank code is required">>)
    ELSE multipartRequest(reply)

\* the operation was called with req and returned r
RestReturn(name, req, r) ==
    /\ rest' = [op |-> name, req |-> req, err |-> r.err, sent |-> r.sent]
    /\ UNCHANGED <<clients, contracts, closed, closeCalls, lockVars, procVars, newVars,
                   sdk, app, callVars, chainVars>>

CallMintRequest ==
    /\ rest.op = ""
    /\ \E req \in MintInputs, reply \in JSONReplies :
          RestReturn("MintRequest", req, MintRequest(req, reply))

CallRedeemRequest ==
    /\ rest.op = ""
    /\ \E req \in RedeemInputs, reply \in JSONReplies :
          RestReturn("RedeemRequest", req, RedeemRequest(req, reply))

CallBridgeRequest ==
    /\ rest.op = ""
    /\ \E req \in BridgeInputs, reply \in JSONReplies :
          RestReturn("BridgeRequest", req, TransactionService_BridgeRequest(req, reply))

CallGetRates ==
    /\ rest.op = ""
    /\ \E req \in RatesInputs, reply \in QueryReplies :
          RestReturn("GetRates", req, GetRates(req, reply))

CallGetAdditionalFees ==
    /\ rest.op = ""
    /\ \E req \in FeesInputs, reply \in QueryReplies :
          RestReturn("GetAdditionalFees", req, GetAdditionalFees(req, reply))

CallGetTransactionHistory ==
    /\ rest.op = ""
    /\ \E req \in HistoryInputs, reply \in QueryReplies :
          RestReturn("GetTransactionHistory", req, GetTransactionHistory(req, reply))

CallOnboard ==
    /\ rest.op = ""
    /\ \E req \in OnboardingInputs, reply \in MultipartReplies :
          RestReturn("Onboard", req, Onboard(req, reply))

CallAddBankAccount ==
    /\ rest.op = ""
    /\ \E req \in BankAccountInputs, reply \in MultipartReplies :
          RestReturn("AddBankAccount", req, AddBankAccount(req, reply))

NextRest ==
    \/ CallMintRequest
    \/ CallRedeemRequest
    \/ CallBridgeRequest
    \/ CallGetRates
    \/ CallGetAdditionalFees
    \/ CallGetTransactionHistory
    \/ CallOnboard
    \/ CallAddBankAccount

SpecRest == Init /\ [][NextRest]_vars

\* ------------------------------------------------------------ properties
CallsOf(method) == {i \in 1..Len(calls) : calls[i].method = method}

BridgeDone == op = "CompleteBridge" /\ pc = "done"

\* the outcome CompleteBridge reports, read off the error it returns
Outcome ==
    IF err = <<>> THEN "Completed"
    ELSE IF err[1] = "failed to burn on source chain" THEN "BurnFailed"
    ELSE IF err[1] = "burn transaction failed" THEN "BurnFailed"
    ELSE IF err[1] = "burn transaction reverted" THEN "BurnReverted"
    ELSE IF err[1] = "failed to extract bridge nonce" THEN "NonceExtractionFailed"
    ELSE IF err[1] = "failed to mint on destination chain" THEN "MintFailed"
    ELSE "Other"

\* the nonces the BurnBridge events of a receipt carry
BurnEventNonces(r) ==
    {r.Logs[i].Data : i \in {j \in 1..Len(r.Logs) :
        Len(r.Logs[j].Topics) > 0 /\ r.Logs[j].Topics[1] = BurnBridgeEventSig}}

\* C1: mintForBridge is issued only after the burn was submitted, its receipt
\* was obtained with success status and a nonce was extracted; when the burn
\* submission fails, the wait fails or the receipt reports a revert, the
\* operation ends with a burn failure (BurnReverted for the revert) and
\* issues no mint.
C1_MintOnlyAfterConfirmedBurn ==
    op = "CompleteBridge" =>
        /\ \A i \in CallsOf("mintForBridge") :
              /\ \E j \in CallsOf("burnForBridge") : j < i
              /\ receipt.Status = ReceiptStatusSuccessful
              /\ bridgeNonce # NoNonce
        /\ (pc = "done" /\ CallsOf("burnForBridge") = {}) =>
              Outcome = "BurnFailed" /\ CallsOf("mintForBridge") = {}
        /\ (pc = "done" /\ CallsOf("burnForBridge") # {} /\ receipt = NoReceipt) =>
              Outcome = "BurnFailed" /\ CallsOf("mintForBridge") = {}
        /\ (pc = "done" /\ receipt.Status = ReceiptStatusFailed) =>
              Outcome = "BurnReverted" /\ CallsOf("mintForBridge") = {}

\* a bridge operation that issued its mint
C1_Witness == op = "CompleteBridge" /\ CallsOf("mintForBridge") # {}

\* the bridge nonce the error value returned by CompleteBridge exposes: a
\* fmt.Errorf value holds a message and the wrapped cause, nothing else
ErrorNonce(e) == NoNonce

\* C2: a mint failure after a confirmed burn is reported as a failure that
\* carries exactly the nonce extracted from the burn receipt.
C2_MintFailureCarriesNonce ==
    (BridgeDone /\ Outcome = "MintFailed") => ErrorNonce(err) = bridgeNonce

\* C3: the nonce passed to mintForBridge is the nonce the source chain emitted
\* in the burn event of the confirmed receipt.
C3_MintNonceFromBurnEvent ==
    op = "CompleteBridge" =>
        \A i \in CallsOf("mintForBridge") : calls[i].nonce \in BurnEventNonces(receipt)

\* C4: a confirmed burn whose receipt holds no burn event ends with
\* NonceExtractionFailed: no nonce is defaulted, no mint is issued.
C4_NoBurnEventNoMint ==
    (BridgeDone /\ receipt.Status = ReceiptStatusSuccessful
        /\ BurnEventNonces(receipt) = {}) =>
        /\ Outcome = "NonceExtractionFailed"
        /\ bridgeNonce = NoNonce
        /\ CallsOf("mintForBridge") = {}

\* C5: Completed is reported only once the destination mint transaction is
\* confirmed with success status.
C5_CompletedOnlyAfterMintConfirmed ==
    (BridgeDone /\ Outcome = "Completed") => mintTx.status = "success"

\* C6: no mintForBridge is submitted for a (source chain, nonce) the
\* destination contract already marks used.
C6_NoMintOfUsedNonce ==
    mintTx.status = "pending" => mintTx.key \notin usedNonces

\* the amount has no more fractional digits than the precision holds
Representable(ta, decimals) ==
    \/ ta.Exp >= -decimals
    \/ ta.Value % Pow10(-ta.Exp - decimals) = 0

ValidBridgeRequest(req) ==
    /\ IsChainSupported(req.FromChainID)
    /\ IsChainSupported(req.ToChainID)
    /\ req.FromChainID # req.ToChainID
    /\ ToWei(req.Amount) # 0
    /\ Representable(req.Amount, GetDecimals(req.FromChainID))

\* C7: no burn is submitted for a request with an unregistered chain, equal
\* chains, a zero amount or an amount the source precision cannot hold.
C7_InvalidRequestRejectedBeforeBurn ==
    (op = "CompleteBridge" /\ CallsOf("burnForBridge") # {}) =>
        ValidBridgeRequest(request)

\* C8: the operation ends in one of the outcomes Completed, BurnFailed,
\* BurnReverted, NonceExtractionFailed, MintFailed, MintReverted, and every
\* failing step yields its own outcome: a reverted mint ends MintReverted.
C8_OutcomePerFailingStep ==
    BridgeDone =>
        /\ Outcome \in {"Completed", "BurnFailed", "BurnReverted",
                        "NonceExtractionFailed", "MintFailed", "MintReverted"}
        /\ (Outcome = "Completed") = (CallsOf("mintForBridge") # {})
        /\ mintTx.status = "reverted" => Outcome = "MintReverted"

\* connections GetClient can probe for the chains of the running request
ProbeLimit ==
    LET cs == {request.FromChainID, request.ToChainID} \cap DOMAIN clients
    IN  IF cs = {} THEN 0
        ELSE LET c == CHOOSE x \in cs : \A y \in cs : Len(clients[x]) >= Len(clients[y])
             IN  Len(clients[c])

\* C9: one invocation submits at most one burn and one mint (a bridge
\* operation) or at most one transaction (transfer, mint, burn); only the
\* liveness probes and the receipt polls repeat, both bounded.
C9_NoAutomaticRetry ==
    /\ Cardinality(CallsOf("burnForBridge")) <= 1
    /\ Cardinality(CallsOf("mintForBridge")) <= 1
    /\ op = "CompleteBridge" =>
          Len(calls) = Cardinality(CallsOf("burnForBridge") \cup CallsOf("mintForBridge"))
    /\ op \in {"Transfer", "Mint", "Burn"} => Len(calls) <= 1
    /\ probes <= ProbeLimit
    /\ pc = "poll" =>
          polls * PollInterval(request.FromChainID) <= WaitTimeout(request.FromChainID)

\* a bridge operation that failed after its burn and was not started over
C9_Witness == BridgeDone /\ err # <<>> /\ Len(calls) = 1

\* C10: for any interleaving of GetClient calls with a Close call, a
\* connection GetClient returned is not closed while its caller holds it.
C10_HandleNeverOutlivesClose ==
    \A g \in Acquirers : gpc[g] = "holding" => held[g] \notin closed

\* every connection the pool holds
PoolConns == UNION {ConnsOf(chainID) : chainID \in DOMAIN clients}

\* C11: Close is idempotent: no connection is closed a second time by a
\* repeated Close, and once a Close has returned the pool holds no
\* connection that GetClient could hand out.
C11_CloseIdempotent ==
    /\ \A c \in AllEndpoints : closeCalls[c] <= 1
    /\ (gpc[Closer] = "idle" /\ closed # {}) => PoolConns = {}

\* the goroutines inside a critical section that reads the maps
InReadSection == {g \in Acquirers : gpc[g] \in {"lookup", "probe", "contract"}}

C13_OrderedFailover ==
    \A g \in Acquirers :
        gchain[g] \in DOMAIN clients =>
            LET cs == clients[gchain[g]]
            IN  /\ gpc[g] = "probe" =>
                      /\ gidx[g] \in 1..Len(cs)
                      /\ gfailed[g] = SubSeq(cs, 1, gidx[g] - 1)
                /\ gpc[g] = "holding" =>
                      \E k \in 1..Len(cs) :
                          held[g] = cs[k] /\ gfailed[g] = SubSeq(cs, 1, k - 1)

\* a call returned the second connection after the first failed its probe
C13_Witness == \E g \in Acquirers : gpc[g] = "holding" /\ Len(gfailed[g]) = 1

\* a GetClient call of g returns in this step
GetClientReturns(g) ==
    gpc[g] \in {"lookup", "probe"} /\ gpc'[g] \in {"idle", "holding"}

\* C14: GetClient returns a connection or an error, never neither: the error
\* is "no available clients" exactly when the chain has connections and all
\* failed their probe, "not supported or not connected" exactly when the
\* chain has no entry; an unknown network name is an error without a
\* connection.
C14_NoNilClientWithSuccess ==
    /\ [][\A g \in Acquirers : GetClientReturns(g) =>
            /\ (held'[g] = NoClient) = (gerr'[g] # <<>>)
            /\ (gerr'[g] = <<"no available clients for chain ID">>) =
                  (gchain[g] \in DOMAIN clients /\ gfailed'[g] = clients[gchain[g]])
            /\ (gerr'[g] = <<"chain ID not supported or not connected">>) =
                  (gchain[g] \notin DOMAIN clients)]_vars
    /\ [](\A g \in Acquirers :
            /\ gerr[g] # <<>> => held[g] = NoClient
            /\ gpc[g] = "holding" => held[g] \in PoolConns)

\* a call found every connection of its chain failing
C14_Witness ==
    \E g \in Acquirers :
        gpc[g] = "idle" /\ gerr[g] = <<"no available clients for chain ID">>

\* a step of GetClient, GetClientByNetwork or GetContract, or of their caller
PoolReadStep == gpc'[Closer] = gpc[Closer] /\ toClose' = toClose

\* C15: GetClient leaves the pool as it is: no connection is removed,
\* reordered or closed by it, and a connection that failed its probe stays at
\* its position, where other calls probe it again and may get it.
C15_AcquireLeavesPool ==
    /\ [][PoolReadStep => UNCHANGED <<newVars, clients, contracts, closed, closeCalls>>]_vars
    /\ [](\A g \in Acquirers : \A i \in 1..Len(gfailed[g]) :
            /\ gchain[g] \in DOMAIN clients
            /\ i <= Len(clients[gchain[g]])
            /\ clients[gchain[g]][i] = gfailed[g][i])

\* one call holds a connection that failed its probe in another call
C15_Witness ==
    \E g \in Acquirers, h \in Acquirers :
        /\ gpc[h] = "holding"
        /\ \E i \in 1..Len(gfailed[g]) : gfailed[g][i] = held[h]

\* the deployed networks none of whose endpoints answers the dial
UnreachableNetworks ==
    {n \in DeployedNetworks : EndpointsOf(n) \subseteq dialFailed}

C17_PoolMatchesRegistry ==
    constructed = "ok" =>
        /\ DOMAIN clients = DOMAIN contracts
        /\ DOMAIN clients = {SupportedNetworks[n].ChainID : n \in DeployedNetworks}
        /\ \A n \in DeployedNetworks :
              LET cs == clients[SupportedNetworks[n].ChainID]
              IN  /\ Len(cs) >= 1
                  /\ {cs[i] : i \in 1..Len(cs)} = EndpointsOf(n) \ dialFailed
                  /\ \A i \in 1..Len(cs), j \in 1..Len(cs) : i < j => cs[i][2] < cs[j][2]
                  /\ contracts[SupportedNetworks[n].ChainID] = cs[1]

\* a chain whose first endpoint did not answer and whose contract is bound to
\* its second
C17_Witness ==
    /\ constructed = "ok"
    /\ \E id \in DOMAIN contracts : <<id, 1>> \in dialFailed /\ contracts[id] = <<id, 2>>

\* the error chain e holds the message msg
HasMessage(e, msg) == \E i \in 1..Len(e) : e[i] = msg

ChainIDMismatch == "client chain ID does not match requested chain ID"

\* C18: every submitted transaction was signed for the chain ID the node
\* reported, which is the chain the call names; a call whose node reported
\* another chain ID fails with the mismatch error and submits nothing.
C18_SignerBoundToReportedChain ==
    /\ \A i \in 1..Len(calls) : calls[i].signer = calls[i].chain
    /\ (pc = "done" /\ HasMessage(err, ChainIDMismatch)) =>
          IF op = "CompleteBridge" /\ err[1] = "failed to mint on destination chain"
          THEN Len(calls) = 1 /\ calls[1].method = "burnForBridge"
          ELSE calls = <<>>

\* a call that met a node of another chain
C18_Witness == pc = "done" /\ HasMessage(err, ChainIDMismatch)

\* block time of the chain the running wait is about
WaitBlockTime == GetNetworkConfigByChainID(request.FromChainID).config.BlockTime

\* C19: the wait polls once per half block time and at no other time, and
\* gives up at a deadline of ten block times, at least one minute.
C19_DeadlineAndPollInterval ==
    /\ [](pc = "poll" =>
            /\ elapsed = polls * (WaitBlockTime \div 2)
            /\ elapsed <= Max(WaitBlockTime * 10, Minute))
    /\ [][(pc = "poll" /\ pc' = "poll") =>
            /\ polls' = polls + 1
            /\ elapsed' = elapsed + WaitBlockTime \div 2]_vars
    /\ [][(pc = "poll" /\ pc' = "done" /\ ~ctxCancelled') =>
            elapsed + WaitBlockTime \div 2 >= Max(WaitBlockTime * 10, Minute)]_vars

\* a wait that ran into its deadline
C19_Witness ==
    /\ pc = "done"
    /\ HasMessage(err, "timeout waiting for transaction")
    /\ ~ctxCancelled

\* C20: a wait ends when a poll finds the receipt or the deadline fires:
\* with a receipt it returns the receipt and no error, and the caller is
\* told "success" exactly when the receipt reports success status and
\* "failed" otherwise; at the deadline it returns the timeout error and no
\* receipt.
C20_WaitOutcomes ==
    /\ [][pc = "poll" =>
            \/ pc' = "poll" /\ receipt' = NoReceipt
            \/ /\ pc' = "receipt"
               /\ receipt'.Status \in {ReceiptStatusSuccessful, ReceiptStatusFailed}
               /\ err' = <<>>
            \/ /\ pc' = "done"
               /\ receipt' = NoReceipt
               /\ HasMessage(err', "timeout waiting for transaction")]_vars
    /\ []((op = "WaitForTransaction" /\ pc = "done" /\ err = <<>>) =>
            /\ receipt # NoReceipt
            /\ (txStatus = "success") = (receipt.Status = ReceiptStatusSuccessful)
            /\ (txStatus = "failed") = (receipt.Status = ReceiptStatusFailed))
    /\ []((op = "WaitForTransaction" /\ pc = "done" /\ err # <<>>) => txStatus = "")
    /\ []((op = "CompleteBridge" /\ pc = "done" /\ receipt.Status = ReceiptStatusFailed)
            => err = <<"burn transaction reverted">>)

\* the service reported a reverted transaction
C20_Witness ==
    op = "WaitForTransaction" /\ pc = "done" /\ txStatus = "failed"

\* C21: a wait always terminates: a waiter in its polling loop leaves it, and
\* one that never saw a receipt ends with the timeout error and no receipt.
C21_WaitTerminates ==
    /\ (pc = "poll") ~> (pc # "poll")
    /\ []((pc = "done" /\ HasMessage(err, "timeout waiting for transaction")) =>
            receipt = NoReceipt /\ txStatus = "")

\* the service's wait ran to its deadline without a receipt
C21_Witness ==
    /\ op = "WaitForTransaction"
    /\ pc = "done"
    /\ err = <<"timeout waiting for transaction">>
    /\ ~ctxCancelled

\* what the error of a finished wait tells its caller: the waiter has one
\* message for the Done() branch, and a cancellation reported as such would
\* carry the error of the caller's context
WaitOutcome ==
    IF err = <<>> THEN "Confirmed"
    ELSE IF HasMessage(err, "context canceled") THEN "Cancelled"
    ELSE IF HasMessage(err, "timeout waiting for transaction") THEN "TimedOut"
    ELSE "Failed"

\* C22: a wait the caller cancelled reports Cancelled, an outcome that differs
\* from TimedOut.
C22_CancelledIsNotTimedOut ==
    (op = "WaitForTransaction" /\ pc = "done" /\ ctxCancelled) =>
        WaitOutcome = "Cancelled"

\* C23: no operation ignores the caller's cancellation signal: an operation
\* called with a cancelled context comes back with an error, not a result.
C23_CancelAbortsEveryOperation ==
    (pc = "done" /\ ctxCancelled) => (err # <<>> /\ result = NoAmount)

\* C24: a construction whose connections could not be initialized hands its
\* caller the failure and no client.
C24_InitFailureIsFatal ==
    (constructed = "failed" /\ keyParsed) => (newErr # <<>> /\ ~sdk.returned)

\* the operations of the service that submit the amount a user names
ServiceSubmissions == {"ServiceTransfer", "BurnForRedemption", "InitiateBridge"}

\* C25: the base units the service submits on a chain are the user's amount
\* scaled by the precision of that chain, the one BalanceOf and TotalSupply
\* convert with.
C25_SubmittedAtChainPrecision ==
    /\ (op \in ServiceSubmissions /\ pc = "done") =>
          \A i \in 1..Len(calls) :
              calls[i].amount =
                  ToWei(TokenAmount(request.Amount.Value, request.Amount.Exp,
                                    GetDecimals(calls[i].chain)))
    /\ (op \in {"BalanceOf", "TotalSupply"} /\ pc = "done" /\ err = <<>>) =>
          result.Decimals = GetDecimals(request.FromChainID)

\* the name each chain ID resolves to and the precision of each chain, as the
\* registry's tests list them
ExpectedNames ==
    8453 :> "BaseMainnet" @@ 137 :> "PolygonMainnet" @@ 56 :> "BSCMainnet"
    @@ 1135 :> "LiskMainnet" @@ 8217 :> "KaiaMainnet" @@ 480 :> "WorldChainMainnet"
    @@ 42793 :> "EtherlinkMainnet" @@ 100 :> "GnosisMainnet"

ExpectedDecimals ==
    8453 :> 2 @@ 137 :> 0 @@ 56 :> 0 @@ 1135 :> 2 @@ 8217 :> 2 @@ 480 :> 2
    @@ 42793 :> 2 @@ 100 :> 2

Called(fn) == app.fn = fn

\* C26: names and chain IDs of the registry correspond one to one: no two
\* descriptors share a chain ID, the lookup by a supported chain ID returns a
\* descriptor with that chain ID and the name under which the lookup by name
\* returns the same descriptor, and every lookup and predicate reports names
\* and chain IDs outside the registry as not found.
C26_RegistryBijection ==
    /\ \A n, m \in NetworkNames :
          SupportedNetworks[n].ChainID = SupportedNetworks[m].ChainID => n = m
    /\ Called("GetNetworkConfigByChainID") =>
          IF app.arg \in DOMAIN ExpectedNames
          THEN /\ app.out.exists
               /\ app.out.config.ChainID = app.arg
               /\ app.out.name = ExpectedNames[app.arg]
               /\ GetNetworkConfig(app.out.name) =
                      [exists |-> TRUE, config |-> app.out.config]
          ELSE ~app.out.exists
    /\ Called("GetNetworkConfig") =>
          IF \E c \in DOMAIN ExpectedNames : ExpectedNames[c] = app.arg
          THEN /\ app.out.exists
               /\ ExpectedNames[app.out.config.ChainID] = app.arg
               /\ GetNetworkConfigByChainID(app.out.config.ChainID).config = app.out.config
          ELSE ~app.out.exists
    /\ Called("GetNetworkNameByChainID") =>
          IF app.arg \in DOMAIN ExpectedNames
          THEN app.out.exists /\ app.out.name = ExpectedNames[app.arg]
          ELSE ~app.out.exists
    /\ Called("IsChainSupported") => (app.out <=> app.arg \in DOMAIN ExpectedNames)
    /\ Called("IsNetworkSupported") =>
          (app.out <=> \E c \in DOMAIN ExpectedNames : ExpectedNames[c] = app.arg)

\* the lookup by chain ID answered for Gnosis
C26_Witness ==
    /\ Called("GetNetworkConfigByChainID")
    /\ app.arg = GnosisChainID
    /\ app.out.exists
    /\ app.out.name = "GnosisMainnet"

\* C27: GetDecimals returns the precision of the descriptor for a registered
\* chain ID and 2 for any other; it has no failure to report.
C27_DecimalsOrFallback ==
    /\ \A n \in NetworkNames :
          /\ SupportedNetworks[n].ChainID \in DOMAIN ExpectedDecimals
          /\ SupportedNetworks[n].Decimals = ExpectedDecimals[SupportedNetworks[n].ChainID]
    /\ Called("GetDecimals") =>
          app.out = IF app.arg \in DOMAIN ExpectedDecimals
                    THEN ExpectedDecimals[app.arg] ELSE 2

\* the precision of a chain the registry does not know was asked for
C27_Witness ==
    /\ Called("GetDecimals")
    /\ app.arg = UnknownChainID
    /\ app.out = 2

\* the fractional digits of the decimal v * 10^x, trailing zeros not counted
RECURSIVE FractionDigits(_, _)
FractionDigits(v, x) ==
    IF x >= 0 \/ v = 0 THEN 0
    ELSE IF v % 10 = 0 THEN FractionDigits(v \div 10, x + 1)
    ELSE -x

Min(a, b) == IF a <= b THEN a ELSE b

Abs(n) == IF n >= 0 THEN n ELSE -n

\* Decimal.Equal: the two decimals are the same number
NumEqual(a, b) ==
    LET m == Min(a.Exp, b.Exp)
    IN  a.Value * Pow10(a.Exp - m) = b.Value * Pow10(b.Exp - m)

\* C28: converting an amount with at most d fractional digits to base units
\* at precision d and back gives the amount again, for every precision d.
C28_RoundTripExact ==
    (Called("ToWei") /\ FractionDigits(app.arg.Value, app.arg.Exp) <= app.arg.Decimals)
        => NumEqual(FromWei(app.out, app.arg.Decimals), app.arg)

\* C29: ToWei is the exact product amount * 10^d with its fraction cut off:
\* the digits beyond d are dropped and the result is never rounded up.
C29_ToWeiTruncates ==
    Called("ToWei") =>
        LET e == app.arg.Exp + app.arg.Decimals
        IN  IF e >= 0 THEN app.out = app.arg.Value * Pow10(e)
            ELSE /\ Abs(app.out) * Pow10(-e) <= Abs(app.arg.Value)
                 /\ Abs(app.arg.Value) < (Abs(app.out) + 1) * Pow10(-e)
                 /\ app.out * app.arg.Value >= 0

\* 0.009 at precision 2: nine tenths of a base unit became no base unit
C29_Witness ==
    /\ Called("ToWei")
    /\ app.arg = TokenAmount(9, -3, 2)
    /\ app.out = 0

\* the characters of a rendered number after its point
FractionChars(s) ==
    IF \E i \in 1..Len(s) : s[i] = "."
    THEN Len(s) - (CHOOSE i \in 1..Len(s) : s[i] = ".")
    ELSE 0

\* C30: String renders an amount with exactly Decimals fractional digits,
\* padded with zeros, and the rendering reads back as the amount; "1000.50"
\* parsed at precision 2 is 100050 base units, and 100050 base units at
\* precision 2 render as "1000.50".
C30_FormatFixedDigits ==
    /\ Called("String") =>
          /\ FractionChars(app.out) = app.arg.Decimals
          /\ NewFromString(app.out).err = <<>>
          /\ FractionDigits(app.arg.Value, app.arg.Exp) <= app.arg.Decimals =>
                NumEqual(NewFromString(app.out).d, app.arg)
    /\ (Called("ParseTokenAmount") /\ app.arg.Decimals = 2
            /\ app.arg.Str = <<"1", "0", "0", "0", ".", "5", "0">>) =>
          (app.out.err = <<>> /\ ToWei(app.out.amount) = 100050)
    /\ (Called("FromWei") /\ app.arg.Wei = 100050 /\ app.arg.Decimals = 2) =>
          String(app.out) = <<"1", "0", "0", "0", ".", "5", "0">>

\* 1000.5 at precision 2 was rendered with its trailing zero
C30_Witness ==
    /\ Called("String")
    /\ app.arg = TokenAmount(10005, -1, 2)
    /\ app.out = <<"1", "0", "0", "0", ".", "5", "0">>

\* the required fields of each request, in the order the struct declares them
RequiredFields(name) ==
    CASE name = "MintRequest" ->
            <<"ToBeMinted", "DestinationWalletAddress", "NetworkChainID", "ExpiryPeriod">>
      [] name = "RedeemRequest" ->
            <<"TxHash", "NetworkChainID", "AmountTransfer", "BankAccount", "BankCode",
              "BankName", "BankAccountName", "WalletAddress", "Notes">>
      [] name = "BridgeRequest" ->
            <<"FromChainID", "ToChainID", "Amount", "WalletAddress", "DestinationAddress">>
      [] name = "GetAdditionalFees" -> <<"FeeType">>
      [] name = "GetTransactionHistory" -> <<"TransactionType", "Page", "Take">>
      [] name = "Onboard" -> <<"Email", "Fullname", "Address", "IDNumber", "IDFile">>
      [] name = "AddBankAccount" -> <<"BankAccountNumber", "BankCode">>
      [] OTHER -> <<>>

\* the field is absent from the request: the zero value of its type
FieldMissing(req, f) ==
    IF f \in {"ExpiryPeriod", "Page", "Take"} THEN req[f] <= 0
    ELSE IF f = "IDFile" THEN req[f] = Nil
    ELSE req[f] = ""

\* the positions of the required fields the latest request lacks
MissingFields ==
    IF rest.req = Nil THEN {}
    ELSE {i \in 1..Len(RequiredFields(rest.op)) :
             FieldMissing(rest.req[1], RequiredFields(rest.op)[i])}

FirstMissing ==
    RequiredFields(rest.op)[CHOOSE i \in MissingFields : \A j \in MissingFields : i <= j]

\* the field an error message names
NamedField(msg) ==
    CASE msg = "toBeMinted is required" -> "ToBeMinted"
      [] msg = "destinationWalletAddress is required" -> "DestinationWalletAddress"
      [] msg = "networkChainId is required" -> "NetworkChainID"
      [] msg = "expiryPeriod must be greater than 0" -> "ExpiryPeriod"
      [] msg = "txHash is required" -> "TxHash"
      [] msg = "amountTransfer is required" -> "AmountTransfer"
      [] msg = "bankAccount is required" -> "BankAccount"
      [] msg = "bankCode is required" -> "BankCode"
      [] msg = "bankName is required" -> "BankName"
      [] msg = "bankAccountName is required" -> "BankAccountName"
      [] msg = "walletAddress is required" -> "WalletAddress"
      [] msg = "notes is required" -> "Notes"
      [] msg = "fromChainId is required" -> "FromChainID"
      [] msg = "toChainId is required" -> "ToChainID"
      [] msg = "amount is required" -> "Amount"
      [] msg = "destinationAddress is required" -> "DestinationAddress"
      [] msg = "fee type is required" -> "FeeType"
      [] msg = "transactionType is required" -> "TransactionType"
      [] msg = "page must be greater than 0" -> "Page"
      [] msg = "take must be greater than 0" -> "Take"
      [] msg = "email is required" -> "Email"
      [] msg = "fullname is required" -> "Fullname"
      [] msg = "address is required" -> "Address"
      [] msg = "ID number is required" -> "IDNumber"
      [] msg = "ID file is required" -> "IDFile"
      [] msg = "bank account number is required" -> "BankAccountNumber"
      [] msg = "bank code is required" -> "BankCode"
      [] OTHER -> ""

\* a rates request that gives neither amount
NoRatesAmount ==
    /\ rest.op = "GetRates"
    /\ rest.req # Nil
    /\ rest.req[1].IDRXAmount \in {Nil, Ptr("")}
    /\ rest.req[1].USDTAmount \in {Nil, Ptr("")}

\* C31: every REST operation that takes a request validates it before sending:
\* a nil request and a request that lacks a required field are answered with
\* an error, the error of a lacking field names the first one the request
\* lacks in the declared order (for GetRates: the two amounts, when both are
\* absent), and no HTTP request was sent.
C31_ValidatesBeforeSending ==
    rest.op # "" =>
        /\ rest.req = Nil => (rest.err # <<>> /\ rest.sent = 0)
        /\ MissingFields # {} =>
              /\ rest.err # <<>>
              /\ NamedField(rest.err[Len(rest.err)]) = FirstMissing
              /\ rest.sent = 0
        /\ NoRatesAmount =>
              /\ HasMessage(rest.err, "either idrxAmount or usdtAmount must be provided")
              /\ rest.sent = 0

\* a redeem request without bank code and notes was refused for its bank code
C31_Witness ==
    /\ rest.op = "RedeemRequest"
    /\ rest.req # Nil
    /\ MissingFields = {5, 9}
    /\ rest.err = <<"validation failed", "bankCode is required">>
    /\ rest.sent = 0

\* the latest call was GetTransactionHistory with a request
HistoryCalled == rest.op = "GetTransactionHistory" /\ rest.req # Nil

\* the call was refused by validation with this message, and nothing was sent
RefusedWith(msg) == rest.err = <<"validation failed", msg>> /\ rest.sent = 0

\* C32: GetTransactionHistory sends a request only for a non-empty
\* transaction type, a page of at least 1 and a take between 1 and 100; a
\* request with a transaction type is refused for its page when the page is
\* not positive, otherwise for its take when the take is not positive or
\* exceeds 100, each with its own validation error, and a refused request is
\* never sent.
C32_HistoryPaging ==
    HistoryCalled =>
        LET req == rest.req[1] IN
        /\ rest.sent > 0 =>
              (req.TransactionType # "" /\ req.Page >= 1 /\ req.Take >= 1 /\ req.Take <= 100)
        /\ (req.Page <= 0 \/ req.Take <= 0 \/ req.Take > 100) =>
              (rest.err # <<>> /\ rest.sent = 0)
        /\ (req.TransactionType # "" /\ req.Page <= 0) =>
              RefusedWith("page must be greater than 0")
        /\ (req.TransactionType # "" /\ req.Page >= 1 /\ req.Take <= 0) =>
              RefusedWith("take must be greater than 0")
        /\ (req.TransactionType # "" /\ req.Page >= 1 /\ req.Take > 100) =>
              RefusedWith("take cannot be greater than 100")

\* page 1 with take 101 was refused for its take; page 1 with take 100 was sent
C32_Witness ==
    /\ HistoryCalled
    /\ rest.req[1] = [TransactionType |-> "x", Page |-> 1, Take |-> 101]
    /\ RefusedWith("take cannot be greater than 100")

C32_WitnessSent ==
    /\ HistoryCalled
    /\ rest.req[1] = [TransactionType |-> "x", Page |-> 1, Take |-> 100]
    /\ rest.err = <<>>
    /\ rest.sent = 1

\* a call of Close has returned
CloseReturned == gpc[Closer] = "idle" /\ \E c \in AllEndpoints : closeCalls[c] > 0

\* C33: once Close has returned, every connection the constructor's dials
\* opened has been closed, those whose liveness probe failed included: no
\* run of construction, GetClient calls and Close leaves an opened connection
\* of the client unreleased.
C33_CloseReleasesEveryConnection == CloseReturned => opened \subseteq closed

\* Close returned while a goroutine held the second connection of a chain,
\* the probe of the first having failed; both are closed
C33_Witness ==
    /\ CloseReturned
    /\ opened # {}
    /\ \E g \in Acquirers :
          /\ Len(gfailed[g]) > 0
          /\ \A i \in 1..Len(gfailed[g]) : gfailed[g][i] \in opened \cap closed

\* C34: when NewClient fails, every connection the attempt had opened is
\* closed before the error is returned: a failed construction leaves no open
\* connection behind.
C34_FailedConstructionClosesOpened ==
    constructed = "failed" => opened \subseteq closed

\* the first connection the constructor's dials opened for the chain
FirstDialed(chainID) ==
    LET idx == {i \in 1..Len(GetNetworkConfigByChainID(chainID).config.RPCEndpoints) :
                   <<chainID, i>> \in opened}
    IN  <<chainID, CHOOSE i \in idx : \A j \in idx : i <= j>>

\* C35: the contract handle of a chain is bound to the first endpoint that
\* connected at construction and stays so: every transaction submitted and
\* every contract read was issued on that connection, whatever the liveness
\* probes answered and whichever connection GetClient selected for the
\* signer's chain-ID check.
C35_ContractBoundToFirstEndpoint ==
    /\ \A id \in DOMAIN contracts : contracts[id] = FirstDialed(id)
    /\ \A i \in 1..Len(calls) : calls[i].via = FirstDialed(calls[i].chain)
    /\ readVia # NoClient => readVia = FirstDialed(request.FromChainID)

\* a transfer whose GetClient skipped the first connection and probed the
\* second was submitted on the first
C35_Witness ==
    /\ op = "Transfer"
    /\ pc = "done"
    /\ probes = 2
    /\ Len(calls) = 1
    /\ calls[1].via = <<request.FromChainID, 1>>

\* a balance was read on the first connection of the chain
C35_WitnessRead ==
    /\ op = "BalanceOf"
    /\ pc = "done"
    /\ err = <<>>
    /\ readVia = <<request.FromChainID, 1>>

\* the (source chain, nonce) pairs that the mints of earlier bridge
\* operations to the chain carried
EarlierMintPairs(chainID) == {<<u[2], u[3]>> : u \in {v \in usedNonces : v[1] = chainID}}

\* C36: bridge operations whose burns were confirmed in distinct source
\* transactions pass pairwise distinct (source chain, nonce) pairs to
\* mintForBridge: the pair of the running operation is none of the pairs
\* the earlier operations on the same chains passed, so its mint is not a
\* replay of theirs.
C36_MintPairsDistinct ==
    op = "CompleteBridge" =>
        \A i \in CallsOf("mintForBridge") :
            <<calls[i].peer, calls[i].nonce>> \notin EarlierMintPairs(calls[i].chain)

\* C37: a bridge operation passes the same integer of base units to
\* burnForBridge on the source chain and to mintForBridge on the destination
\* chain, the amount of the request at the precision it carries, whatever
\* the precisions of the two chains: the amount is not rescaled.
C37_SameBaseUnitsBurnedAndMinted ==
    op = "CompleteBridge" =>
        \A i \in CallsOf("burnForBridge"), j \in CallsOf("mintForBridge") :
            /\ calls[i].amount = ToWei(request.Amount)
            /\ calls[j].amount = calls[i].amount

\* one token burned as 100 base units on a chain of precision 2 and minted
\* as 100 base units on a chain of another precision
C37_Witness ==
    /\ BridgeDone
    /\ GetDecimals(request.FromChainID) # GetDecimals(request.ToChainID)
    /\ \E i \in CallsOf("burnForBridge"), j \in CallsOf("mintForBridge") :
          /\ calls[i].amount = calls[j].amount
          /\ calls[i].amount > 0

\* C38: GetTransactionStatus never reads a field of an absent receipt: it
\* always returns, after a failed receipt lookup it returns the status
\* "pending" or an error, and it reports "success" or "failed" only from a
\* receipt the lookup returned.
C38_StatusOnlyFromReceipt ==
    (op = "GetTransactionStatus" /\ pc # "idle") =>
        /\ pc = "done"
        /\ (receipt = NoReceipt) => (txStatus = "pending" \/ err # <<>>)
        /\ (txStatus \in {"success", "failed"}) => receipt # NoReceipt

\* the waiter ended with the timeout error
TimedOut == pc = "done" /\ HasMessage(err, "timeout waiting for transaction")

\* C39: the waiter takes every failed receipt lookup as "not yet available":
\* the lookup leaves it polling with no error, the only error it leaves the
\* loop with is the timeout, which without a cancellation by the caller
\* comes at the deadline and not before, so that a waiter whose lookups all
\* fail ends with the timeout; it enters the loop without a lookup and
\* makes the first one a full poll interval later.
C39_FailedLookupKeepsPolling ==
    /\ [][(pc = "poll" /\ polls' = polls + 1) =>
            /\ pc' = "poll"
            /\ err' = err
            /\ receipt' = NoReceipt
            /\ elapsed' = elapsed + WaitBlockTime \div 2]_vars
    /\ [][(pc = "poll" /\ pc' = "done") =>
            /\ HasMessage(err', "timeout waiting for transaction")
            /\ receipt' = NoReceipt
            /\ ~ctxCancelled' =>
                  elapsed + WaitBlockTime \div 2 >= Max(WaitBlockTime * 10, Minute)]_vars
    /\ [][(pc # "poll" /\ pc' = "poll") =>
            (polls' = 0 /\ elapsed' = 0 /\ receipt' = NoReceipt)]_vars
    /\ []((pc = "poll" /\ polls >= 1) => elapsed >= WaitBlockTime \div 2)
    /\ [](pc = "poll" => WaitBlockTime \div 2 > 0)
    /\ (pc = "poll") ~> (pc = "receipt" \/ TimedOut)

\* every lookup failed up to the last tick before the deadline
C39_Witness ==
    /\ pc = "poll"
    /\ polls > 1
    /\ receipt = NoReceipt
    /\ err = <<>>
    /\ elapsed + WaitBlockTime \div 2 > Max(WaitBlockTime * 10, Minute)

\* C40: WaitForTransaction never uses the block time of a missing network
\* descriptor: every chain GetClient accepts has a descriptor in the
\* registry, a waiter in its polling loop waits on such a chain, and a wait
\* on any other chain, once GetClient has answered, has returned the error
\* of GetClient without entering the loop.
C40_WaitHasDescriptor ==
    /\ \A id \in DOMAIN clients : GetNetworkConfigByChainID(id).exists
    /\ pc = "poll" =>
          /\ request.FromChainID \in DOMAIN clients
          /\ GetNetworkConfigByChainID(request.FromChainID).exists
    /\ (op = "WaitForTransaction" /\ pc \notin {"idle", "wait"}
            /\ ~GetNetworkConfigByChainID(request.FromChainID).exists) =>
          /\ pc = "done"
          /\ err = <<"chain ID not supported or not connected">>
          /\ receipt = NoReceipt

\* a wait on a chain that is not in the registry returned the acquire error
C40_Witness ==
    /\ op = "WaitForTransaction"
    /\ pc = "done"
    /\ ~GetNetworkConfigByChainID(request.FromChainID).exists
    /\ err = <<"chain ID not supported or not connected">>

====
